---------------------------- MODULE Spec2Model ----------------------------
(***************************************************************************)
(* A model of the configuration core of CrewAI-Agent-Generator:            *)
(*   - validate_crew_config      (src/utils/llm_generator.py)              *)
(*   - merge_configurations      (src/generators/prompt_builder.py)        *)
(*   - create_crewai_code / create_langgraph_code (src/framework/)         *)
(*   - generate_config_from_prompt (src/framework/prompt_generator.py)     *)
(*                                                                         *)
(* Python strings whose characters the code inspects (names, prompt text)  *)
(* are sequences of one-character strings; strings the code only compares  *)
(* as a whole (tool ids, environment-variable names) are TLA+ strings.     *)
(* Each component has its own specification; the variables of the other    *)
(* components stay at their idle values.                                   *)
(***************************************************************************)
EXTENDS Integers, Sequences, FiniteSets, TLC

VARIABLES
    vIn,        \* validate_crew_config: the configuration passed in
    vOut,       \* validate_crew_config: what the call produced
    vPc,        \* validate_crew_config: "input" | "returned" | "raised"
    mTarget,    \* merge_configurations: target_config (mutated in place)
    mSource,    \* merge_configurations: source_config
    mBefore,    \* target_config as it was before the latest merge
    mPc,        \* merges of mSource into mTarget: "new" | "merged" | "remerged"
    rConfig,    \* code generators: the configuration rendered
    rFramework, \* code generators: "crewai" | "langgraph" | "idle"
    hashSeed,   \* the interpreter process's string-hash seed, as the order
                \* in which it iterates sets of tool ids and of variable names
    rOut,       \* the texts returned by the calls made so far
    xPrompt,    \* generate_config_from_prompt: the prompt passed in
    xOut,       \* generate_config_from_prompt: the configuration and warnings
    xPc,        \* generate_config_from_prompt: "input" | "returned" | "idle"
    lIn,        \* generate_crew_with_llm: arguments, environment and what
                \* each provider would answer
    lOut,       \* generate_crew_with_llm: what the call produced
    lCalls,     \* the provider and validator calls made, in order
    lPc,        \* generate_crew_with_llm: "input" | "returned" | "raised"
    gIn,        \* the latest click on Generate: framework, API key, what
                \* the model initialisation and the model would answer
    gSession,   \* st.session_state: the keys config, code, framework it holds
    gCalls,     \* the functions the latest click called, in order
    gClicks,    \* the number of clicks on Generate so far
    gPc,        \* how the latest click ended: "no_key" | "done" | "failed"
    tIn,        \* tool_utils: the function called and its arguments
    tOut,       \* tool_utils: the list returned, and the parameters mapping
                \* as the call left it
    tPc         \* tool_utils: "input" | "returned" | "idle"

validateVars == <<vIn, vOut, vPc>>
mergeVars == <<mTarget, mSource, mBefore, mPc>>
renderVars == <<rConfig, rFramework, hashSeed, rOut>>
extractVars == <<xPrompt, xOut, xPc>>
llmVars == <<lIn, lOut, lCalls, lPc>>
appVars == <<gIn, gSession, gCalls, gClicks, gPc>>
toolVars == <<tIn, tOut, tPc>>
vars == <<validateVars, mergeVars, renderVars, extractVars, llmVars, appVars,
          toolVars>>

(***************************************************************************)
(* Generic helpers                                                         *)
(***************************************************************************)

\* All sequences over S of length 0..n.
SeqsUpTo(S, n) == UNION {[1..k -> S] : k \in 0..n}

\* Python `c in s` for a one-character c and a string s.
Contains(s, c) == \E i \in 1..Len(s) : s[i] = c

\* Python str.replace(old, new) for one-character old and new.
replace(s, old, new) == [i \in 1..Len(s) |-> IF s[i] = old THEN new ELSE s[i]]

\* The items of a sequence, as a set.
Range(s) == {s[i] : i \in 1..Len(s)}

(***************************************************************************)
(* Loosely typed values (what json.loads can hand to the validator)        *)
(***************************************************************************)

\* A dictionary key that is missing.
Absent == [tag |-> "absent", s |-> <<>>]
\* A value that is present but is not a string (a JSON number or null).
NonStr == [tag |-> "nonstr", s |-> <<>>]
\* A string value.
Str(s) == [tag |-> "str", s |-> s]

\* A list-valued key: missing, null, or a list.
NoKey == [tag |-> "absent", items |-> <<>>]
Null == [tag |-> "null", items |-> <<>>]
List(items) == [tag |-> "list", items |-> items]


(***************************************************************************)
(* Tool Catalog: the keys of get_available_tools(), in dictionary order    *)
(***************************************************************************)

AvailableTools ==
    << "SerperDevTool", "SearXSearchTool", "GoogleSearchTool", "BrowserTool",
       "FileReadTool", "FileWriteTool", "PythonREPLTool", "TavilySearchTool",
       "BrowserbaseLoadTool", "CodeDocsSearchTool", "CodeInterpreterTool",
       "ComposioTool", "CSVSearchTool", "DALL-E Tool", "DirectorySearchTool",
       "DOCXSearchTool", "DirectoryReadTool", "EXASearchTool",
       "FirecrawlSearchTool", "FirecrawlCrawlWebsiteTool",
       "FirecrawlScrapeWebsiteTool", "GithubSearchTool", "TXTSearchTool",
       "JSONSearchTool", "LlamaIndexTool", "MDXSearchTool", "PDFSearchTool",
       "PGSearchTool", "Vision Tool", "RagTool",
       "ScrapeElementFromWebsiteTool", "ScrapeWebsiteTool",
       "WebsiteSearchTool", "XMLSearchTool", "YoutubeChannelSearchTool",
       "YoutubeVideoSearchTool" >>

\* Python `tool in available_tools`.
InCatalog(tool) == \E i \in 1..Len(AvailableTools) : AvailableTools[i] = tool

(***************************************************************************)
(* validate_crew_config                                                    *)
(***************************************************************************)

\* The placeholder names the validator assigns.
unnamed_agent == <<"u","n","n","a","m","e","d","_","a","g","e","n","t">>
unnamed_task == <<"u","n","n","a","m","e","d","_","t","a","s","k">>

\* One appended warning: its kind, and the values its f-string interpolates.
Warning(kind, tool, name, old) ==
    [kind |-> kind, tool |-> tool, name |-> name, old |-> old]

\* The outcome of a step that may raise: a TypeError leaves `raised` TRUE and
\* the warnings appended before it in `warnings`.
Step(raised, val, warnings) ==
    [raised |-> raised, val |-> val, warnings |-> warnings]

\* for agent in ...: the name repairs. `" " in agent["name"]` raises a
\* TypeError when the name is a number or null.
RepairAgentName(name) ==
    LET n1 == IF name.tag = "absent" THEN Str(unnamed_agent) ELSE name
        w1 == IF name.tag = "absent"
              THEN <<Warning("agent_unnamed", "", unnamed_agent, <<>>)>>
              ELSE <<>>
    IN IF n1.tag = "nonstr" THEN Step(TRUE, n1, w1)
       ELSE IF Contains(n1.s, " ")
       THEN LET fixed == replace(n1.s, " ", "_")
            IN Step(FALSE, Str(fixed),
                    w1 \o <<Warning("agent_space", "", fixed, n1.s)>>)
       ELSE Step(FALSE, n1, w1)

\* for tool in agent["tools"]: keep the catalog ids, warn for every other
\* occurrence. `valid` and `warns` are the loop's accumulators.
RECURSIVE FilterToolsWarnOnce(_, _, _, _)
FilterToolsWarnOnce(tools, name, valid, warns) ==
    IF tools = <<>> THEN [tools |-> valid, warnings |-> warns]
    ELSE LET tool == Head(tools)
         IN IF InCatalog(tool)
            THEN FilterToolsWarnOnce(Tail(tools), name, Append(valid, tool), warns)
            ELSE FilterToolsWarnOnce(Tail(tools), name, valid,
                     IF \E i \in 1..Len(warns) : warns[i].tool = tool
                     THEN warns
                     ELSE Append(warns, Warning("unknown_tool", tool, name, <<>>)))

RECURSIVE FilterTools(_, _, _, _)
FilterTools(tools, name, valid, warns) ==
    IF tools = <<>> THEN [tools |-> valid, warnings |-> warns]
    ELSE LET tool == Head(tools)
         IN IF InCatalog(tool)
            THEN FilterTools(Tail(tools), name, Append(valid, tool), warns)
            ELSE FilterTools(Tail(tools), name, valid,
                     Append(warns, Warning("unknown_tool", tool, name, <<>>)))

\* The tools step of one agent whose name is already repaired.
ValidateAgentTools(tools, name) ==
    IF tools.tag # "list" \/ tools.items = <<>>
    THEN [tools |-> <<>>,
          warnings |-> <<Warning("no_tools", "", name, <<>>)>>]
    ELSE FilterTools(tools.items, name, <<>>, <<>>)

\* The body of `for agent in config.get("agents", [])`.
ValidateAgent(agent) ==
    LET r == RepairAgentName(agent.name)
    IN IF r.raised THEN Step(TRUE, agent, r.warnings)
       ELSE LET t == ValidateAgentTools(agent.tools, r.val.s)
            IN Step(FALSE, [name |-> r.val, tools |-> List(t.tools)],
                    r.warnings \o t.warnings)

\* The agents loop: `done` are the agents already repaired, `warns` the
\* warnings so far; a raise ends the loop.
RECURSIVE ValidateAgents(_, _, _)
ValidateAgents(todo, done, warns) ==
    IF todo = <<>> THEN Step(FALSE, done, warns)
    ELSE LET r == ValidateAgent(Head(todo))
         IN IF r.raised THEN Step(TRUE, done, warns \o r.warnings)
            ELSE ValidateAgents(Tail(todo), Append(done, r.val),
                                warns \o r.warnings)


\* for task in ...: the name repairs, as for an agent.
RepairTaskName(name) ==
    LET n1 == IF name.tag = "absent" THEN Str(unnamed_task) ELSE name
        w1 == IF name.tag = "absent"
              THEN <<Warning("task_unnamed", "", unnamed_task, <<>>)>>
              ELSE <<>>
    IN IF n1.tag = "nonstr" THEN Step(TRUE, n1, w1)
       ELSE IF Contains(n1.s, " ")
       THEN LET fixed == replace(n1.s, " ", "_")
            IN Step(FALSE, Str(fixed),
                    w1 \o <<Warning("task_space", "", fixed, n1.s)>>)
       ELSE Step(FALSE, n1, w1)

\* agent_names = [a["name"] for a in config.get("agents", [])]
AgentNames(agents) == [i \in 1..Len(agents) |-> agents[i].name]

\* The agent step of one task whose name (a string) is already repaired;
\* `agents` is the agent list as the agents loop left it.
AssignTaskAgentKeep(name, agent, agents) ==
    LET agent_names == AgentNames(agents)
    IN IF agent.tag = "absent"
       THEN IF agents # <<>>
            THEN [agent |-> agents[1].name,
                  warnings |-> <<Warning("task_agent_assigned", "",
                                         name, agents[1].name.s)>>]
            ELSE [agent |-> agent,
                  warnings |-> <<Warning("task_agent_unassigned", "", name, <<>>)>>]
       ELSE IF agent \notin Range(agent_names)
            THEN IF agent_names # <<>>
                 THEN [agent |-> agent,
                       warnings |-> <<Warning("task_agent_replaced", "", name,
                                              agent_names[1].s)>>]
                 ELSE [agent |-> agent,
                       warnings |-> <<Warning("task_agent_unrepaired", "",
                                              name, <<>>)>>]
            ELSE [agent |-> agent, warnings |-> <<>>]

AssignTaskAgentLast(name, agent, agents) ==
    LET agent_names == AgentNames(agents)
        last == Len(agents)
    IN IF agent.tag = "absent"
       THEN IF agents # <<>>
            THEN [agent |-> agents[last].name,
                  warnings |-> <<Warning("task_agent_assigned", "",
                                         name, agents[last].name.s)>>]
            ELSE [agent |-> agent,
                  warnings |-> <<Warning("task_agent_unassigned", "", name, <<>>)>>]
       ELSE IF agent \notin Range(agent_names)
            THEN IF agent_names # <<>>
                 THEN [agent |-> agent_names[last],
                       warnings |-> <<Warning("task_agent_replaced", "", name,
                                              agent_names[last].s)>>]
                 ELSE [agent |-> agent,
                       warnings |-> <<Warning("task_agent_unrepaired", "",
                                              name, <<>>)>>]
            ELSE [agent |-> agent, warnings |-> <<>>]

AssignTaskAgentDrop(name, agent, agents) ==
    LET agent_names == AgentNames(agents)
    IN IF agent.tag = "absent"
       THEN IF agents # <<>>
            THEN [agent |-> agents[1].name,
                  warnings |-> <<Warning("task_agent_assigned", "",
                                         name, agents[1].name.s)>>]
            ELSE [agent |-> agent,
                  warnings |-> <<Warning("task_agent_unassigned", "", name, <<>>)>>]
       ELSE IF agent \notin Range(agent_names)
            THEN IF agent_names # <<>>
                 THEN [agent |-> Absent,
                       warnings |-> <<Warning("task_agent_replaced", "", name,
                                              agent_names[1].s)>>]
                 ELSE [agent |-> agent,
                       warnings |-> <<Warning("task_agent_unrepaired", "",
                                              name, <<>>)>>]
            ELSE [agent |-> agent, warnings |-> <<>>]

AssignTaskAgent(name, agent, agents) ==
    LET agent_names == AgentNames(agents)
    IN IF agent.tag = "absent"
       THEN IF agents # <<>>
            THEN [agent |-> agents[1].name,
                  warnings |-> <<Warning("task_agent_assigned", "",
                                         name, agents[1].name.s)>>]
            ELSE [agent |-> agent,
                  warnings |-> <<Warning("task_agent_unassigned", "", name, <<>>)>>]
       ELSE IF agent \notin Range(agent_names)
            THEN IF agent_names # <<>>
                 THEN [agent |-> agent_names[1],
                       warnings |-> <<Warning("task_agent_replaced", "", name,
                                              agent_names[1].s)>>]
                 ELSE [agent |-> agent,
                       warnings |-> <<Warning("task_agent_unrepaired", "",
                                              name, <<>>)>>]
            ELSE [agent |-> agent, warnings |-> <<>>]

\* The body of `for task in config.get("tasks", [])`.
ValidateTask(task, agents) ==
    LET r == RepairTaskName(task.name)
    IN IF r.raised THEN Step(TRUE, task, r.warnings)
       ELSE LET a == AssignTaskAgent(r.val.s, task.agent, agents)
            IN Step(FALSE, [name |-> r.val, agent |-> a.agent],
                    r.warnings \o a.warnings)

\* The tasks loop; every task met is kept in the list.
RECURSIVE ValidateTasks(_, _, _, _)
ValidateTasks(todo, agents, done, warns) ==
    IF todo = <<>> THEN Step(FALSE, done, warns)
    ELSE LET r == ValidateTask(Head(todo), agents)
         IN IF r.raised THEN Step(TRUE, done, warns \o r.warnings)
            ELSE ValidateTasks(Tail(todo), agents, Append(done, r.val),
                               warns \o r.warnings)

\* `if key not in config or len(config[key]) == 0`: len(None) raises.
NormaliseList(value, kind) ==
    IF value.tag = "absent" THEN Step(FALSE, <<>>, <<Warning(kind, "", <<>>, <<>>)>>)
    ELSE IF value.tag = "null" THEN Step(TRUE, <<>>, <<>>)
    ELSE IF value.items = <<>> THEN Step(FALSE, <<>>, <<Warning(kind, "", <<>>, <<>>)>>)
    ELSE Step(FALSE, value.items, <<>>)

\* What a call produced: it raised, or it returned (config, warnings).
Raised == [raised |-> TRUE, agents |-> <<>>, tasks |-> <<>>, warnings |-> <<>>]
Returned(agents, tasks, warnings) ==
    [raised |-> FALSE, agents |-> agents, tasks |-> tasks, warnings |-> warnings]

NoOutput == Returned(<<>>, <<>>, <<>>)

\* validate_crew_config(config). A top-level value that is not a mapping
\* raises at `"agents" not in config` or at `config["agents"] = []`.
validate_crew_config(config) ==
    IF config.kind # "dict" THEN Raised
    ELSE LET la == NormaliseList(config.agents, "no_agents")
         IN IF la.raised THEN Raised
            ELSE LET lt == NormaliseList(config.tasks, "no_tasks")
                 IN IF lt.raised THEN Raised
                    ELSE LET ra == ValidateAgents(la.val, <<>>,
                                                  la.warnings \o lt.warnings)
                         IN IF ra.raised THEN Raised
                            ELSE LET rt == ValidateTasks(lt.val, ra.val, <<>>,
                                                         ra.warnings)
                                 IN IF rt.raised THEN Raised
                                    ELSE Returned(ra.val, rt.val, rt.warnings)

(***************************************************************************)
(* Idle values: a component that a specification does not exercise         *)
(***************************************************************************)

EmptyConfig == [agents |-> <<>>, tasks |-> <<>>]

IdleMerge ==
    /\ mTarget = EmptyConfig
    /\ mSource = EmptyConfig
    /\ mBefore = EmptyConfig
    /\ mPc = "idle"

IdleValidate ==
    /\ vIn = [kind |-> "dict", agents |-> NoKey, tasks |-> NoKey]
    /\ vOut = NoOutput
    /\ vPc = "idle"

IdleRender ==
    /\ rConfig = [agents |-> <<>>, tasks |-> <<>>, nodes |-> <<>>, edges |-> <<>>]
    /\ rFramework = "idle"
    /\ hashSeed = [tools |-> <<>>, env |-> <<>>]
    /\ rOut = <<>>

IdleExtract ==
    /\ xPrompt = <<>>
    /\ xOut = [agents |-> <<>>, tasks |-> <<>>, warnings |-> <<>>]
    /\ xPc = "idle"

IdleLlm ==
    /\ lIn = [provider |-> "idle"]
    /\ lOut = NoOutput
    /\ lCalls = <<>>
    /\ lPc = "idle"

IdleApp ==
    /\ gIn = [framework |-> "idle"]
    /\ gSession = <<>>
    /\ gCalls = <<>>
    /\ gClicks = 0
    /\ gPc = "idle"

IdleTool ==
    /\ tIn = [op |-> "idle"]
    /\ tOut = <<>>
    /\ tPc = "idle"

(***************************************************************************)
(* Inputs of the validator                                                 *)
(***************************************************************************)

\* The most agents plus tasks in an input configuration.
MaxItems == 3
\* The longest tools list, and the most agents, of the tools-only inputs.
MaxTools == 3
MaxToolAgents == 1

\* Names: clean, with a space, with an underscore, with a tab.
NamePool == { <<"a">>, <<"a", " ">>, <<"a", "_">>, <<"a", "\t">> }
NameOpts == {Absent, NonStr} \cup {Str(s) : s \in NamePool}
RefOpts == {Absent} \cup {Str(s) : s \in NamePool \ { <<"a", "\t">> }}
ToolsOpts == {NoKey, List(<<"SerperDevTool">>), List(<<"NoSuchTool">>)}
AgentOpts == [name : NameOpts, tools : ToolsOpts]
TaskOpts == [name : NameOpts, agent : RefOpts]

\* A list-valued key holding exactly n items; missing and null keys hold none.
ListOpts(S, n) ==
    {List(items) : items \in [1..n -> S]}
    \cup (IF n = 0 THEN {NoKey, Null} ELSE {})

\* Loosely typed configurations with at most MaxItems agents and tasks, and
\* a top-level value that is not a mapping.
IsConfigInput(c) ==
    \/ \E na \in 0..MaxItems : \E nt \in 0..(MaxItems - na) :
         \E a \in ListOpts(AgentOpts, na) : \E t \in ListOpts(TaskOpts, nt) :
            c = [kind |-> "dict", agents |-> a, tasks |-> t]
    \/ c = [kind |-> "nondict", agents |-> NoKey, tasks |-> NoKey]

\* Well-typed configurations whose agents carry longer tools lists.
ToolIdPool == {"SerperDevTool", "BrowserTool", "NoSuchTool"}
ToolListOpts == {NoKey} \cup {List(ts) : ts \in SeqsUpTo(ToolIdPool, MaxTools)}
ToolConfigInputs ==
    { [kind |-> "dict", agents |-> List(a), tasks |-> NoKey] :
        a \in SeqsUpTo([name : {Absent, Str(<<"a">>), Str(<<"a", " ">>)},
                        tools : ToolListOpts], MaxToolAgents) }

InitValidate ==
    /\ IsConfigInput(vIn)
    /\ vOut = NoOutput
    /\ vPc = "input"
    /\ IdleMerge
    /\ IdleRender
    /\ IdleExtract
    /\ IdleLlm
    /\ IdleApp
    /\ IdleTool

InitValidateTools ==
    /\ vIn \in ToolConfigInputs
    /\ vOut = NoOutput
    /\ vPc = "input"
    /\ IdleMerge
    /\ IdleRender
    /\ IdleExtract
    /\ IdleLlm
    /\ IdleApp
    /\ IdleTool

\* One call of validate_crew_config on the input.
Validate ==
    /\ vPc = "input"
    /\ vOut' = validate_crew_config(vIn)
    /\ vPc' = IF vOut'.raised THEN "raised" ELSE "returned"
    /\ UNCHANGED <<vIn, mergeVars, renderVars, extractVars,
                 llmVars, appVars,
                 toolVars>>

NextValidate == Validate

SpecValidate == InitValidate /\ [][NextValidate]_vars
SpecValidateTools == InitValidateTools /\ [][NextValidate]_vars


(***************************************************************************)
(* Claims about validate_crew_config                                       *)
(***************************************************************************)

OutAgentNames == AgentNames(vOut.agents)
OutTaskNames == [i \in 1..Len(vOut.tasks) |-> vOut.tasks[i].name]

\* C1: after validate_crew_config returns, every task in the returned task
\* list has an `agent` equal to the name of an agent in the returned agent
\* list (a task that cannot be repaired is not in the list).
C1_TaskAgentsResolve ==
    vPc = "returned" =>
        \A i \in 1..Len(vOut.tasks) :
            vOut.tasks[i].agent \in Range(OutAgentNames)

\* Python str.isspace characters that can occur in a name.
Whitespace == {" ", "\t", "\n", "\r", "\f"}
HasWhitespace(s) == \E c \in Whitespace : Contains(s, c)

\* C2: after validate_crew_config returns, no agent name and no task name
\* contains a whitespace character.
C2_NoWhitespaceInNames ==
    vPc = "returned" =>
        /\ \A i \in 1..Len(vOut.agents) : ~HasWhitespace(OutAgentNames[i].s)
        /\ \A i \in 1..Len(vOut.tasks) : ~HasWhitespace(OutTaskNames[i].s)

Distinct(names) ==
    \A i, j \in 1..Len(names) : i # j => names[i] # names[j]

\* C3: after validate_crew_config returns, agent names are pairwise distinct
\* and task names are pairwise distinct.
C3_NamesDistinct ==
    vPc = "returned" => Distinct(OutAgentNames) /\ Distinct(OutTaskNames)

\* C4: validate_crew_config never raises, whatever the loosely typed input.
C4_NeverRaises == vPc # "raised"

\* The unknown ids of a tools value, one entry per occurrence, in order.
NotInCatalog(tool) == ~InCatalog(tool)
RECURSIVE DroppedTools(_)
DroppedTools(agents) ==
    IF agents = <<>> THEN <<>>
    ELSE SelectSeq(Head(agents).tools.items, NotInCatalog)
         \o DroppedTools(Tail(agents))

IsUnknownToolWarning(w) == w.kind = "unknown_tool"
UnknownToolWarnings == SelectSeq(vOut.warnings, IsUnknownToolWarning)

\* C5: after validate_crew_config returns, every tool id of every agent is a
\* catalog key, the surviving ids keep their input order, and there is
\* exactly one warning for each dropped occurrence of an unknown id.
C5_ToolsFiltered ==
    vPc = "returned" =>
        /\ Len(vOut.agents) = Len(vIn.agents.items)
        /\ \A i \in 1..Len(vOut.agents) :
              /\ \A k \in 1..Len(vOut.agents[i].tools.items) :
                    InCatalog(vOut.agents[i].tools.items[k])
              /\ vOut.agents[i].tools.items
                   = SelectSeq(vIn.agents.items[i].tools.items, InCatalog)
        /\ [k \in 1..Len(UnknownToolWarnings) |-> UnknownToolWarnings[k].tool]
             = DroppedTools(vIn.agents.items)

\* C5 witness: a returned call on an agent listing the same unknown id twice
\* around a catalog id.
C5_Witness ==
    /\ vPc = "returned"
    /\ \E i \in 1..Len(vIn.agents.items) :
          vIn.agents.items[i].tools.items
            = <<"NoSuchTool", "BrowserTool", "NoSuchTool">>
    /\ Len(UnknownToolWarnings) = 2

\* The case of C6: one agent, with a string name that needs no repair, and
\* one task whose `agent` is a string naming no agent.
C6_Case ==
    /\ vIn.kind = "dict"
    /\ Len(vIn.agents.items) = 1
    /\ Len(vIn.tasks.items) = 1
    /\ vIn.agents.items[1].name.tag = "str"
    /\ ~Contains(vIn.agents.items[1].name.s, " ")
    /\ vIn.tasks.items[1].agent.tag = "str"
    /\ vIn.tasks.items[1].agent # vIn.agents.items[1].name

IsRepairWarning(w) == w.kind = "task_agent_replaced"

\* Whether the input of C6's case needs no other repair than the task's agent.
C6_NothingElseToRepair ==
    /\ vIn.agents.items[1].tools.items # <<>>
    /\ \A k \in 1..Len(vIn.agents.items[1].tools.items) :
          InCatalog(vIn.agents.items[1].tools.items[k])
    /\ vIn.tasks.items[1].name.tag = "str"
    /\ ~Contains(vIn.tasks.items[1].name.s, " ")

\* C6 as stated: in that case the task's agent becomes a1 and the warning
\* list holds exactly one warning, the one naming the repair.
C6_ExactlyOneWarning ==
    (C6_Case /\ vPc = "returned") =>
        /\ vOut.tasks[1].agent = vIn.agents.items[1].name
        /\ Len(vOut.warnings) = 1
        /\ IsRepairWarning(vOut.warnings[1])

\* C6 as amended: in that case the task's agent becomes a1 and exactly one
\* warning names that repair; every other warning reports a1's missing or
\* unknown tools or the repair of the task's own name, so the list is that
\* single warning exactly when nothing else needed repair.
C6_OneRepairWarning ==
    (C6_Case /\ vPc = "returned") =>
        /\ vOut.tasks[1].agent = vIn.agents.items[1].name
        /\ Len(SelectSeq(vOut.warnings, IsRepairWarning)) = 1
        /\ \A k \in 1..Len(vOut.warnings) :
              \/ /\ IsRepairWarning(vOut.warnings[k])
                 /\ vOut.warnings[k].name = vOut.tasks[1].name.s
                 /\ vOut.warnings[k].old = vIn.agents.items[1].name.s
              \/ vOut.warnings[k].kind
                    \in {"no_tools", "unknown_tool", "task_unnamed", "task_space"}
        /\ (Len(vOut.warnings) = 1) <=> C6_NothingElseToRepair

\* C6 witness: the case, returned with the repair warning alone.
C6_Witness ==
    /\ C6_Case
    /\ vPc = "returned"
    /\ Len(vOut.warnings) = 1
    /\ vOut.tasks[1].agent = Str(<<"a">>)


(***************************************************************************)
(* merge_configurations                                                    *)
(***************************************************************************)

\* existing_names = [a["name"] for a in target_config[...]]
ExistingNames(items) == [i \in 1..Len(items) |-> items[i].name]

\* Python list.index(x): the first position holding x.
index(names, x) ==
    CHOOSE i \in 1..Len(names) :
        names[i] = x /\ \A j \in 1..(i - 1) : names[j] # x

\* One pass of the agents loop body: replace in place, or append.
UpsertAgentMoveToEnd(agents, agent) ==
    LET existing_names == ExistingNames(agents)
    IN IF agent.name \in Range(existing_names)
       THEN LET idx == index(existing_names, agent.name)
            IN SubSeq(agents, 1, idx - 1)
               \o SubSeq(agents, idx + 1, Len(agents)) \o <<agent>>
       ELSE Append(agents, agent)

UpsertAgentReplaceOnly(agents, agent) ==
    LET existing_names == ExistingNames(agents)
    IN IF agent.name \in Range(existing_names)
       THEN [agents EXCEPT ![index(existing_names, agent.name)] = agent]
       ELSE agents

UpsertAgent(agents, agent) ==
    LET existing_names == ExistingNames(agents)
    IN IF agent.name \in Range(existing_names)
       THEN [agents EXCEPT ![index(existing_names, agent.name)] = agent]
       ELSE Append(agents, agent)

\* The agents loop with existing_names computed once, before the loop.
RECURSIVE MergeAgentsStaleFrom(_, _, _)
MergeAgentsStaleFrom(agents, source, names) ==
    IF source = <<>> THEN agents
    ELSE MergeAgentsStaleFrom(
             IF Head(source).name \in Range(names)
             THEN [agents EXCEPT ![index(names, Head(source).name)] = Head(source)]
             ELSE Append(agents, Head(source)),
             Tail(source), names)

MergeAgentsStale(agents, source) ==
    MergeAgentsStaleFrom(agents, source, ExistingNames(agents))

\* for agent in source_config["agents"]
RECURSIVE MergeAgents(_, _)
MergeAgents(agents, source) ==
    IF source = <<>> THEN agents
    ELSE MergeAgents(UpsertAgent(agents, Head(source)), Tail(source))

\* One pass of the tasks loop body: replace in place, or append.
UpsertTask(tasks, task) ==
    LET existing_names == ExistingNames(tasks)
    IN IF task.name \in Range(existing_names)
       THEN [tasks EXCEPT ![index(existing_names, task.name)] = task]
       ELSE Append(tasks, task)

\* The tasks loop with existing_names computed once, before the loop.
RECURSIVE MergeTasksStaleFrom(_, _, _)
MergeTasksStaleFrom(tasks, source, names) ==
    IF source = <<>> THEN tasks
    ELSE MergeTasksStaleFrom(
             IF Head(source).name \in Range(names)
             THEN [tasks EXCEPT ![index(names, Head(source).name)] = Head(source)]
             ELSE Append(tasks, Head(source)),
             Tail(source), names)

MergeTasksStale(tasks, source) ==
    MergeTasksStaleFrom(tasks, source, ExistingNames(tasks))

\* for task in source_config["tasks"]
RECURSIVE MergeTasks(_, _)
MergeTasks(tasks, source) ==
    IF source = <<>> THEN tasks
    ELSE MergeTasks(UpsertTask(tasks, Head(source)), Tail(source))

\* merge_configurations(target_config, source_config): target_config after it.
merge_configurations(target_config, source_config) ==
    [agents |-> MergeAgents(target_config.agents, source_config.agents),
     tasks |-> MergeTasks(target_config.tasks, source_config.tasks)]

\* The most items in the target's and the source's two lists together.
MaxMergeItems == 4

MergeNames == {"x", "y"}
MergeAgentItems == [name : MergeNames, role : {"r1", "r2"}]
MergeTaskItems == [name : MergeNames, agent : MergeNames]

InitMerge ==
    /\ \E na \in 0..MaxMergeItems : \E nb \in 0..(MaxMergeItems - na) :
       \E nc \in 0..(MaxMergeItems - na - nb) :
       \E nd \in 0..(MaxMergeItems - na - nb - nc) :
          /\ mTarget \in [agents : [1..na -> MergeAgentItems],
                          tasks : [1..nb -> MergeTaskItems]]
          /\ mSource \in [agents : [1..nc -> MergeAgentItems],
                          tasks : [1..nd -> MergeTaskItems]]
    /\ mBefore = mTarget
    /\ mPc = "new"
    /\ IdleValidate
    /\ IdleRender
    /\ IdleExtract
    /\ IdleLlm
    /\ IdleApp
    /\ IdleTool

\* merge_configurations(config, new_config), the first time.
Merge ==
    /\ mPc = "new"
    /\ mBefore' = mTarget
    /\ mTarget' = merge_configurations(mTarget, mSource)
    /\ mPc' = "merged"
    /\ UNCHANGED <<mSource, validateVars, renderVars, extractVars,
                 llmVars, appVars,
                 toolVars>>

\* merge_configurations(config, new_config) again, with the same new_config.
MergeAgain ==
    /\ mPc = "merged"
    /\ mBefore' = mTarget
    /\ mTarget' = merge_configurations(mTarget, mSource)
    /\ mPc' = "remerged"
    /\ UNCHANGED <<mSource, validateVars, renderVars, extractVars,
                 llmVars, appVars,
                 toolVars>>

NextMerge == Merge \/ MergeAgain

SpecMerge == InitMerge /\ [][NextMerge]_vars

(***************************************************************************)
(* Claims about merge_configurations                                       *)
(***************************************************************************)

\* C7: after merge(A, B), a second merge(A, B) with the same B leaves A's
\* agent list and task list unchanged.
C7_MergeIdempotent ==
    mPc = "remerged" =>
        /\ mTarget.agents = mBefore.agents
        /\ mTarget.tasks = mBefore.tasks

\* C7 witness: a second merge was applied where the source repeats a task
\* name that the original target did not hold, with different contents.
C7_Witness ==
    /\ mPc = "remerged"
    /\ Len(mSource.tasks) = 2
    /\ mSource.tasks[1].name = mSource.tasks[2].name
    /\ mSource.tasks[1] # mSource.tasks[2]
    /\ Len(mTarget.tasks) = 1
    /\ Len(mSource.agents) = 1
    /\ Len(mTarget.agents) = 2

\* The last source item of a given name.
LastNamed(source, name) ==
    source[CHOOSE i \in 1..Len(source) :
               source[i].name = name
               /\ \A j \in (i + 1)..Len(source) : source[j].name # name]

\* The names of `source` that `old` does not hold, each once, in the order
\* of their first occurrence.
RECURSIVE NewNames(_, _, _)
NewNames(source, old, seen) ==
    IF source = <<>> THEN <<>>
    ELSE IF Head(source).name \in Range(ExistingNames(old)) \cup seen
         THEN NewNames(Tail(source), old, seen)
         ELSE <<Head(source).name>>
              \o NewNames(Tail(source), old, seen \cup {Head(source).name})

\* `new` is `old` upserted by name with `source`: no item is removed, every
\* old position keeps its name, the first old item of a name the source
\* holds is replaced in place (by the last source item of that name), every
\* other old item is untouched, and the source's other names are appended.
IsUpsert(old, source, new) ==
    LET oldNames == ExistingNames(old)
        srcNames == Range(ExistingNames(source))
        added == NewNames(source, old, {})
    IN /\ Len(new) >= Len(old)
       /\ Len(new) = Len(old) + Len(added)
       /\ \A i \in 1..Len(old) :
             /\ new[i].name = old[i].name
             /\ new[i] = IF old[i].name \in srcNames /\ index(oldNames, old[i].name) = i
                         THEN LastNamed(source, old[i].name)
                         ELSE old[i]
       /\ \A k \in 1..Len(added) :
             new[Len(old) + k] = LastNamed(source, added[k])

\* C8: merge_configurations is a name-keyed upsert with no deletion, for
\* agents and for tasks independently.
C8_MergeIsUpsert ==
    mPc \in {"merged", "remerged"} =>
        /\ IsUpsert(mBefore.agents, mSource.agents, mTarget.agents)
        /\ IsUpsert(mBefore.tasks, mSource.tasks, mTarget.tasks)

\* C8 witness: one merge both replaced the first of two agents in place and
\* appended an agent of a new name.
C8_Witness ==
    /\ mPc = "merged"
    /\ Len(mBefore.agents) = 2
    /\ Len(mTarget.agents) = 3
    /\ mTarget.agents[1] # mBefore.agents[1]
    /\ mTarget.agents[1].name = mBefore.agents[1].name
    /\ mTarget.agents[2] = mBefore.agents[2]


(***************************************************************************)
(* Code generators. A generated text is the sequence of the pieces the     *)
(* generator appends to `code`; a piece is the sequence of its literal     *)
(* fragments and interpolated values.                                      *)
(***************************************************************************)

\* Python iteration over a set of strings: the order is fixed by the
\* process's hash seed, here the order `order` over all strings.
IterSet(S, order) ==
    LET In(x) == x \in S IN SelectSeq(order, In)

\* Python sorted() on tool ids: code-point order of the ids rendered here.
SortedToolIds ==
    <<"BrowserTool", "FileReadTool", "GmailTool", "SerperDevTool", "basic_tool">>
sorted(S) ==
    LET In(x) == x \in S IN SelectSeq(SortedToolIds, In)

\* sep.join(pieces), flattened into one sequence of strings.
RECURSIVE Join(_, _)
Join(pieces, sep) ==
    IF pieces = <<>> THEN <<>>
    ELSE IF Len(pieces) = 1 THEN Head(pieces)
    ELSE Head(pieces) \o <<sep>> \o Join(Tail(pieces), sep)

\* The concatenation of a sequence of texts.
RECURSIVE Concat(_)
Concat(texts) ==
    IF texts = <<>> THEN <<>> ELSE Head(texts) \o Concat(Tail(texts))

\* f"{True}" and f"{False}".
PyBool(b) == IF b THEN "True" ELSE "False"

\* The set of every tool of every agent, each agent carrying a tools list.
UsedTools(agents) == UNION {Range(agents[i].tools) : i \in 1..Len(agents)}

\* agent["tools"] where the code first tests `"tools" in agent`.
ToolsIfAny(agent) == IF "tools" \in DOMAIN agent THEN agent.tools ELSE <<>>
\* used_tools: every tool of every agent that has tools.
CrewUsedTools(agents) ==
    UNION {Range(ToolsIfAny(agents[i])) : i \in 1..Len(agents)}

\* env_vars, from the three credential checks.
EnvVars(used_tools) ==
    (IF "SerperDevTool" \in used_tools THEN {"SERPER_API_KEY"} ELSE {})
    \cup (IF "BrowserTool" \in used_tools THEN {"BROWSERLESS_API_KEY"} ELSE {})
    \cup (IF "GmailTool" \in used_tools THEN {"GMAIL_TOKEN_PATH"} ELSE {})

\* The import block and the environment checks; `for var in env_vars`
\* iterates the set in hash order.
CrewImports(used_tools, seed) ==
    IF used_tools = {} THEN <<>>
    ELSE << <<"from crewai_tools import (\n    ">>
              \o Join([i \in 1..Len(sorted(used_tools)) |-> <<sorted(used_tools)[i]>>],
                      ",\n    ")
              \o <<"\n)\n">> >>
         \o (IF EnvVars(used_tools) = {} THEN <<>>
             ELSE << <<"\nimport os\nfrom dotenv import load_dotenv\n\n",
                       "# Load environment variables\n", "load_dotenv()\n\n">> >>
                  \o [i \in 1..Cardinality(EnvVars(used_tools)) |->
                        <<"if '", IterSet(EnvVars(used_tools), seed.env)[i],
                          "' not in os.environ:\n",
                          "    raise ValueError(\"Please set the ",
                          IterSet(EnvVars(used_tools), seed.env)[i],
                          " environment variable\")\n">>]
                  \o << <<"\n">> >>)

\* The constructor call emitted for one tool of an agent.
ToolInstance(tool) ==
    IF tool = "DirectoryReadTool" THEN <<tool, "(directory_path='.')">>
    ELSE IF tool = "FileReadTool" THEN <<tool, "(file_path='example.txt')">>
    ELSE <<tool, "()">>

\* The pieces of one agent.
CrewAgent(agent) ==
    << <<"# Agent: ", agent.name, "\n">> >>
    \o (IF ToolsIfAny(agent) # <<>>
        THEN << <<"tools_", agent.name, " = [">>
                  \o Join([i \in 1..Len(agent.tools) |-> ToolInstance(agent.tools[i])],
                          ", ")
                  \o <<"]\n">> >>
        ELSE <<>>)
    \o << <<"agent_", agent.name, " = Agent(\n">>,
          <<"    role='", agent.role, "',\n">>,
          <<"    goal='", agent.goal, "',\n">>,
          <<"    backstory='", agent.backstory, "',\n">>,
          <<"    verbose=", PyBool(agent.verbose), ",\n">>,
          <<"    allow_delegation=", PyBool(agent.allow_delegation), ",\n">>,
          (IF ToolsIfAny(agent) # <<>>
           THEN <<"    tools=tools_", agent.name, "\n">>
           ELSE <<"    tools=[]\n">>),
          <<")\n\n">> >>

\* The pieces of one task.
CrewTask(task) ==
    << <<"# Task: ", task.name, "\n">>,
       <<"task_", task.name, " = Task(\n">>,
       <<"    description='", task.description, "',\n">>,
       <<"    agent=agent_", task.agent, ",\n">>,
       <<"    expected_output='", task.expected_output, "'\n">>,
       <<")\n\n">> >>

\* create_crewai_code(config), run in a process whose hash seed is `seed`.
create_crewai_code(config, seed) ==
    << <<"from crewai import Agent, Task, Crew\n">> >>
    \o CrewImports(CrewUsedTools(config.agents), seed)
    \o << <<"\n">> >>
    \o Concat([i \in 1..Len(config.agents) |-> CrewAgent(config.agents[i])])
    \o Concat([i \in 1..Len(config.tasks) |-> CrewTask(config.tasks[i])])
    \o << <<"# Crew Configuration\n">>, <<"crew = Crew(\n">>,
          <<"    agents=[">>
            \o Join([i \in 1..Len(config.agents) |->
                        <<"agent_", config.agents[i].name>>], ", ")
            \o <<"],\n">>,
          <<"    tasks=[">>
            \o Join([i \in 1..Len(config.tasks) |->
                        <<"task_", config.tasks[i].name>>], ", ")
            \o <<"]\n">>,
          <<")\n\n">>, <<"# Run the crew\n">>, <<"result = crew.kickoff()">> >>

\* str.capitalize() of the tool ids rendered here.
capitalize(tool) ==
    CASE tool = "SerperDevTool" -> "Serperdevtool"
      [] tool = "BrowserTool" -> "Browsertool"
      [] tool = "FileReadTool" -> "Filereadtool"
      [] tool = "GmailTool" -> "Gmailtool"
      [] tool = "basic_tool" -> "Basic_tool"

\* The tool classes and the tools list; both `for tool in tools` loops
\* iterate the same set in hash order.
GraphTools(agents, seed) ==
    IF \A i \in 1..Len(agents) : agents[i].tools = <<>> THEN <<>>
    ELSE LET tools == IterSet(UsedTools(agents), seed.tools)
         IN << <<"# Define tools\n">> >>
            \o [i \in 1..Len(tools) |->
                  <<"class ", capitalize(tools[i]), "Tool(BaseTool):\n    name = \"",
                    tools[i], "\"\n    description = \"Tool for ", tools[i],
                    " operations\"\n", "    def _run: Result from ", tools[i],
                    " tool\n", "    async def _arun: Result from ", tools[i],
                    " tool\n\n">>]
            \o << <<"tools = [\n">> >>
            \o [i \in 1..Len(tools) |-> <<"    ", capitalize(tools[i]), "Tool(),\n">>]
            \o << <<"]\n\n">> >>

\* The pieces of one agent function.
GraphAgent(agent) ==
    << <<"# Agent: ", agent.name, "\n">>,
       <<"def ", agent.name, "_agent(state: AgentState) -> AgentState:\n">>,
       <<"    \"\"\"Agent that handles ", agent.role, ".\"\"\"\n">>,
       <<"    llm = ChatOpenAI(model=\"", agent.llm, "\")\n">>,
       <<"    messages; response; return\n\n">> >>

\* workflow.add_node for one node.
GraphNode(node) ==
    <<"workflow.add_node(\"", node.name, "\", ", node.agent, "_agent)\n">>

GraphEdgeQuoted(edge) ==
    <<"workflow.add_edge(\"", edge.source, "\", \"", edge.target, "\")\n">>

\* workflow.add_edge for one edge; the sentinel "END" becomes the marker END.
GraphEdge(edge) ==
    IF edge.target = "END"
    THEN <<"workflow.add_edge(\"", edge.source, "\", END)\n">>
    ELSE <<"workflow.add_edge(\"", edge.source, "\", \"", edge.target, "\")\n">>

\* create_langgraph_code(config), run in a process whose hash seed is `seed`.
\* Template text that interpolates nothing is abbreviated.
create_langgraph_code(config, seed) ==
    << <<"from langgraph.graph import StateGraph, END ... class AgentState\n\n">> >>
    \o GraphTools(config.agents, seed)
    \o Concat([i \in 1..Len(config.agents) |-> GraphAgent(config.agents[i])])
    \o << <<"# Define routing logic\ndef router\n\n">>,
          <<"# Define the graph\n">>, <<"workflow = StateGraph(AgentState)\n\n">>,
          <<"# Add nodes to the graph\n">> >>
    \o [i \in 1..Len(config.nodes) |-> GraphNode(config.nodes[i])]
    \o << <<"\n# Add conditional edges\n">> >>
    \o [i \in 1..Len(config.edges) |-> GraphEdge(config.edges[i])]
    \o (IF config.nodes # <<>>
        THEN << <<"\n# Set entry point\nworkflow.set_entry_point(\"",
                  config.nodes[1].name, "\")\n">> >>
        ELSE <<>>)
    \o << <<"\n# Compile the graph\napp = workflow.compile()\n... run_agent ...\n">> >>

\* create_code_block(config, framework)
create_code_block(config, framework, seed) ==
    IF framework = "crewai" THEN create_crewai_code(config, seed)
    ELSE IF framework = "langgraph" THEN create_langgraph_code(config, seed)
    ELSE << <<"# Invalid framework specified">> >>

(***************************************************************************)
(* Inputs of the code generators                                           *)
(***************************************************************************)

\* The most agents of a rendered configuration, and the longest tools list.
MaxRenderAgents == 2
MaxRenderTools == 2

RenderToolPool == {"SerperDevTool", "BrowserTool", "FileReadTool"}
EnvNames == {"SERPER_API_KEY", "BROWSERLESS_API_KEY", "GMAIL_TOKEN_PATH"}

\* The orders in which a process can iterate a set drawn from S.
Perms(S) ==
    {p \in [1..Cardinality(S) -> S] : \A i, j \in 1..Cardinality(S) :
                                          p[i] = p[j] => i = j}
HashSeeds == [tools : Perms(RenderToolPool), env : Perms(EnvNames)]

RenderNames == <<"a1", "a2", "a3", "a4">>
NodeNames == <<"n1", "n2", "n3", "n4">>
TaskNames == <<"t1", "t2", "t3", "t4">>

\* The configuration of n agents with the given tools lists: one task and
\* one node for each agent, the nodes chained by edges up to END.
RenderConfig(toolLists) ==
    LET n == Len(toolLists)
    IN [agents |-> [i \in 1..n |->
                      [name |-> RenderNames[i], role |-> "R", goal |-> "G",
                       backstory |-> "", verbose |-> TRUE,
                       allow_delegation |-> FALSE, llm |-> "gpt-4",
                       tools |-> toolLists[i]]],
        tasks |-> [i \in 1..n |->
                      [name |-> TaskNames[i], description |-> "D",
                       expected_output |-> "E", agent |-> RenderNames[i]]],
        nodes |-> [i \in 1..n |->
                      [name |-> NodeNames[i], description |-> "D",
                       agent |-> RenderNames[i]]],
        edges |-> [i \in 1..n |->
                      [source |-> NodeNames[i],
                       target |-> IF i = n THEN "END" ELSE NodeNames[i + 1]]]]

InitRender ==
    /\ \E n \in 0..MaxRenderAgents :
       \E toolLists \in [1..n -> SeqsUpTo(RenderToolPool, MaxRenderTools)] :
          rConfig = RenderConfig(toolLists)
    /\ rFramework \in {"crewai", "langgraph"}
    /\ hashSeed \in HashSeeds
    /\ rOut = <<>>
    /\ IdleValidate
    /\ IdleMerge
    /\ IdleExtract
    /\ IdleLlm
    /\ IdleApp
    /\ IdleTool

\* One call of the selected generator; a second call renders a
\* structurally equal configuration.
Render ==
    /\ rFramework # "idle"
    /\ Len(rOut) < 2
    /\ rOut' = Append(rOut, create_code_block(rConfig, rFramework, hashSeed))
    /\ UNCHANGED <<rConfig, rFramework, hashSeed, validateVars, mergeVars,
                   extractVars, llmVars, appVars,
                 toolVars>>

\* The application is started again: a new interpreter process, whose
\* string hashing is seeded afresh.
Restart ==
    /\ rFramework # "idle"
    /\ Len(rOut) = 1
    /\ hashSeed' \in HashSeeds \ {hashSeed}
    /\ UNCHANGED <<rConfig, rFramework, rOut, validateVars, mergeVars,
                   extractVars, llmVars, appVars,
                 toolVars>>

NextRender == Render \/ Restart

SpecRender == InitRender /\ [][NextRender]_vars

(***************************************************************************)
(* Claims about the code generators                                        *)
(***************************************************************************)

\* C9: two calls of create_crewai_code (respectively create_langgraph_code)
\* on structurally equal configurations return identical text, whatever the
\* order in which a set of tool ids or of variable names is iterated.
C9_RenderDeterministic ==
    Len(rOut) = 2 => rOut[1] = rOut[2]


(***************************************************************************)
(* generate_config_from_prompt  (src/framework/prompt_generator.py)        *)
(***************************************************************************)

Upper == <<"A", "B", "C", "D", "E", "F", "G", "H", "I", "J", "K", "L", "M",
           "N", "O", "P", "Q", "R", "S", "T", "U", "V", "W", "X", "Y", "Z">>
Lower == <<"a", "b", "c", "d", "e", "f", "g", "h", "i", "j", "k", "l", "m",
           "n", "o", "p", "q", "r", "s", "t", "u", "v", "w", "x", "y", "z">>
Digits == <<"0", "1", "2", "3", "4", "5", "6", "7", "8", "9">>

Min(S) == CHOOSE x \in S : \A y \in S : x <= y
Max(S) == CHOOSE x \in S : \A y \in S : x >= y

\* str.lower(), one character and a whole string.
lower_char(c) ==
    IF \E i \in 1..Len(Upper) : Upper[i] = c
    THEN Lower[CHOOSE i \in 1..Len(Upper) : Upper[i] = c]
    ELSE c
lower(s) == [i \in 1..Len(s) |-> lower_char(s[i])]

\* \s, \w and the class [:\s] of the patterns.
IsSpace(c) == c \in {" ", "\t", "\n", "\r"}
IsWord(c) == c = "_" \/ c \in Range(Upper) \cup Range(Lower) \cup Range(Digits)
IsSep(c) == c = ":" \/ IsSpace(c)

\* str.strip()
strip(s) ==
    LET keep == {i \in 1..Len(s) : ~IsSpace(s[i])}
    IN IF keep = {} THEN <<>> ELSE SubSeq(s, Min(keep), Max(keep))

\* str.startswith()
startswith(s, prefix) ==
    Len(prefix) <= Len(s) /\ \A i \in 1..Len(prefix) : s[i] = prefix[i]

\* str(n) of a natural number.
RECURSIVE str(_)
str(n) == IF n < 10 THEN <<Digits[n + 1]>> ELSE str(n \div 10) \o <<Digits[(n % 10) + 1]>>

\* re.split(r"[,;]", s)
RECURSIVE split(_)
split(s) ==
    LET cuts == {i \in 1..Len(s) : s[i] \in {",", ";"}}
    IN IF cuts = {} THEN <<s>>
       ELSE <<SubSeq(s, 1, Min(cuts) - 1)>> \o split(SubSeq(s, Min(cuts) + 1, Len(s)))

\* The literal kw matches at position p of s under re.IGNORECASE.
At(s, p, kw) ==
    /\ p + Len(kw) - 1 <= Len(s)
    /\ \A i \in 1..Len(kw) : lower_char(s[p + i - 1]) = kw[i]

\* The length of the longest run of [:\s] characters that starts at p.
SepRun(s, p) ==
    LET stops == {i \in p..Len(s) : ~IsSep(s[i])}
    IN (IF stops = {} THEN Len(s) + 1 ELSE Min(stops)) - p

\* kw[:\s]+ matches at p.
KeywordAt(s, p, kw) == At(s, p, kw) /\ SepRun(s, p + Len(kw)) >= 1

\* \b at p: exactly one of the characters before and at p is a word character.
Boundary(s, p) ==
    LET word(i) == i >= 1 /\ i <= Len(s) /\ IsWord(s[i])
    IN word(p - 1) # word(p)

kwAgent == <<"a", "g", "e", "n", "t">>
kwTask == <<"t", "a", "s", "k">>

\* The lookahead (?=\bAgent[:\s]+|\bTask[:\s]+|$) at position e; without
\* re.MULTILINE, $ is the end of the text or the newline that ends it.
BlockEnd(s, e) ==
    \/ Boundary(s, e) /\ KeywordAt(s, e, kwAgent)
    \/ Boundary(s, e) /\ KeywordAt(s, e, kwTask)
    \/ e = Len(s) + 1
    \/ e = Len(s) /\ s[e] = "\n"

NoMatch == [found |-> FALSE, from |-> 0, to |-> 0]

\* kw[:\s]+([^#]+?)(?=...) tried at position p: the separator run is greedy
\* and gives characters back, the group is the shortest run without "#"
\* after which the lookahead holds.  The group is s[from .. to - 1].
BlockMatch(s, p, kw) ==
    LET k == p + Len(kw)
        Ends(g) == {e \in (g + 1)..(Len(s) + 1) :
                       BlockEnd(s, e) /\ \A i \in g..(e - 1) : s[i] # "#"}
        starts == {g \in (k + 1)..(k + SepRun(s, k)) : Ends(g) # {}}
    IN IF ~At(s, p, kw) \/ starts = {} THEN NoMatch
       ELSE [found |-> TRUE, from |-> Max(starts), to |-> Min(Ends(Max(starts)))]

\* re.findall of the block pattern of kw, scanning from position p.
RECURSIVE findall(_, _, _)
findall(s, p, kw) ==
    IF p > Len(s) THEN <<>>
    ELSE LET m == BlockMatch(s, p, kw)
         IN IF m.found
            THEN <<SubSeq(s, m.from, m.to - 1)>> \o findall(s, m.to, kw)
            ELSE findall(s, p + 1, kw)

NoField == [found |-> FALSE, pos |-> 0, text |-> <<>>]

\* re.search(kw[:\s]+([^\n]+), block, re.IGNORECASE): the leftmost position
\* at which kw, a separator run and at least one character other than a
\* newline follow one another; the group runs to the end of its line.
search(block, kw) ==
    LET Starts(p) == {g \in (p + Len(kw) + 1)..(p + Len(kw) + SepRun(block, p + Len(kw))) :
                         g <= Len(block) /\ block[g] # "\n"}
        hits == {p \in 1..Len(block) : At(block, p, kw) /\ Starts(p) # {}}
    IN IF hits = {} THEN NoField
       ELSE LET g == Max(Starts(Min(hits)))
                nl == {i \in g..Len(block) : block[i] = "\n"}
                e == IF nl = {} THEN Len(block) + 1 ELSE Min(nl)
            IN [found |-> TRUE, pos |-> Min(hits), text |-> SubSeq(block, g, e - 1)]

\* re.search(tool(?:s)?[:\s]+([^\n]+), ...): at one position at most one of
\* "tools" and "tool" is followed by a separator, so the leftmost wins.
search_tools(block) ==
    LET plural == search(block, <<"t", "o", "o", "l", "s">>)
        single == search(block, <<"t", "o", "o", "l">>)
    IN IF ~plural.found THEN single
       ELSE IF ~single.found THEN plural
       ELSE IF single.pos < plural.pos THEN single ELSE plural

\* The keys of get_available_tools(), character by character.
AvailableToolChars ==
    << <<"S", "e", "r", "p", "e", "r", "D", "e", "v", "T", "o", "o", "l">>,
       <<"S", "e", "a", "r", "X", "S", "e", "a", "r", "c", "h", "T", "o", "o", "l">>,
       <<"G", "o", "o", "g", "l", "e", "S", "e", "a", "r", "c", "h", "T", "o", "o", "l">>,
       <<"B", "r", "o", "w", "s", "e", "r", "T", "o", "o", "l">>,
       <<"F", "i", "l", "e", "R", "e", "a", "d", "T", "o", "o", "l">>,
       <<"F", "i", "l", "e", "W", "r", "i", "t", "e", "T", "o", "o", "l">>,
       <<"P", "y", "t", "h", "o", "n", "R", "E", "P", "L", "T", "o", "o", "l">>,
       <<"T", "a", "v", "i", "l", "y", "S", "e", "a", "r", "c", "h", "T", "o", "o", "l">>,
       <<"B", "r", "o", "w", "s", "e", "r", "b", "a", "s", "e", "L", "o", "a", "d", "T", "o", "o", "l">>,
       <<"C", "o", "d", "e", "D", "o", "c", "s", "S", "e", "a", "r", "c", "h", "T", "o", "o", "l">>,
       <<"C", "o", "d", "e", "I", "n", "t", "e", "r", "p", "r", "e", "t", "e", "r", "T", "o", "o", "l">>,
       <<"C", "o", "m", "p", "o", "s", "i", "o", "T", "o", "o", "l">>,
       <<"C", "S", "V", "S", "e", "a", "r", "c", "h", "T", "o", "o", "l">>,
       <<"D", "A", "L", "L", "-", "E", " ", "T", "o", "o", "l">>,
       <<"D", "i", "r", "e", "c", "t", "o", "r", "y", "S", "e", "a", "r", "c", "h", "T", "o", "o", "l">>,
       <<"D", "O", "C", "X", "S", "e", "a", "r", "c", "h", "T", "o", "o", "l">>,
       <<"D", "i", "r", "e", "c", "t", "o", "r", "y", "R", "e", "a", "d", "T", "o", "o", "l">>,
       <<"E", "X", "A", "S", "e", "a", "r", "c", "h", "T", "o", "o", "l">>,
       <<"F", "i", "r", "e", "c", "r", "a", "w", "l", "S", "e", "a", "r", "c", "h", "T", "o", "o", "l">>,
       <<"F", "i", "r", "e", "c", "r", "a", "w", "l", "C", "r", "a", "w", "l", "W", "e", "b", "s", "i", "t", "e", "T", "o", "o", "l">>,
       <<"F", "i", "r", "e", "c", "r", "a", "w", "l", "S", "c", "r", "a", "p", "e", "W", "e", "b", "s", "i", "t", "e", "T", "o", "o", "l">>,
       <<"G", "i", "t", "h", "u", "b", "S", "e", "a", "r", "c", "h", "T", "o", "o", "l">>,
       <<"T", "X", "T", "S", "e", "a", "r", "c", "h", "T", "o", "o", "l">>,
       <<"J", "S", "O", "N", "S", "e", "a", "r", "c", "h", "T", "o", "o", "l">>,
       <<"L", "l", "a", "m", "a", "I", "n", "d", "e", "x", "T", "o", "o", "l">>,
       <<"M", "D", "X", "S", "e", "a", "r", "c", "h", "T", "o", "o", "l">>,
       <<"P", "D", "F", "S", "e", "a", "r", "c", "h", "T", "o", "o", "l">>,
       <<"P", "G", "S", "e", "a", "r", "c", "h", "T", "o", "o", "l">>,
       <<"V", "i", "s", "i", "o", "n", " ", "T", "o", "o", "l">>,
       <<"R", "a", "g", "T", "o", "o", "l">>,
       <<"S", "c", "r", "a", "p", "e", "E", "l", "e", "m", "e", "n", "t", "F", "r", "o", "m", "W", "e", "b", "s", "i", "t", "e", "T", "o", "o", "l">>,
       <<"S", "c", "r", "a", "p", "e", "W", "e", "b", "s", "i", "t", "e", "T", "o", "o", "l">>,
       <<"W", "e", "b", "s", "i", "t", "e", "S", "e", "a", "r", "c", "h", "T", "o", "o", "l">>,
       <<"X", "M", "L", "S", "e", "a", "r", "c", "h", "T", "o", "o", "l">>,
       <<"Y", "o", "u", "t", "u", "b", "e", "C", "h", "a", "n", "n", "e", "l", "S", "e", "a", "r", "c", "h", "T", "o", "o", "l">>,
       <<"Y", "o", "u", "t", "u", "b", "e", "V", "i", "d", "e", "o", "S", "e", "a", "r", "c", "h", "T", "o", "o", "l">> >>

\* A warning of the extractor; the fields a kind does not use are empty.
ExtractWarning(kind, tool, name) == [kind |-> kind, tool |-> tool, name |-> name]

\* A variant of the lookup that keeps scanning the catalog after a hit.
MatchToolLast(tool) ==
    LET hits == {k \in 1..Len(AvailableToolChars) :
                    startswith(lower(AvailableToolChars[k]), lower(tool))}
    IN IF hits = {} THEN 0 ELSE Max(hits)

\* The first catalog key that equals tool or starts with it, ignoring case;
\* 0 if there is none.
MatchTool(tool) ==
    LET hits == {k \in 1..Len(AvailableToolChars) :
                    \/ lower(AvailableToolChars[k]) = lower(tool)
                    \/ startswith(lower(AvailableToolChars[k]), lower(tool))}
    IN IF hits = {} THEN 0 ELSE Min(hits)


\* Lines 62-84: the tools of one agent block and the warnings about them.
RECURSIVE MatchTools(_, _, _, _)
MatchTools(potential_tools, name, tools, warns) ==
    IF potential_tools = <<>> THEN [tools |-> tools, warnings |-> warns]
    ELSE LET tool == strip(Head(potential_tools))
             tool_match == MatchTool(tool)
         IN IF tool_match # 0
            THEN MatchTools(Tail(potential_tools), name,
                            Append(tools, AvailableTools[tool_match]), warns)
            ELSE MatchTools(Tail(potential_tools), name, tools,
                            Append(warns, ExtractWarning("unknown_tool", tool, name)))

\* Lines 34-97: the agent of the i-th agent block (i counted from 0) and
\* the warnings it adds.
ExtractAgent(i, agent_block) ==
    LET name_match == search(agent_block, <<"n", "a", "m", "e">>)
        role_match == search(agent_block, <<"r", "o", "l", "e">>)
        goal_match == search(agent_block, <<"g", "o", "a", "l">>)
        backstory_match == search(agent_block, <<"b", "a", "c", "k", "s", "t", "o", "r", "y">>)
        tools_match == search_tools(agent_block)
        name == IF name_match.found
                THEN replace(strip(name_match.text), " ", "_")
                ELSE <<"a", "g", "e", "n", "t", "_">> \o str(i + 1)
        matched == IF tools_match.found
                   THEN MatchTools(split(strip(tools_match.text)), name, <<>>, <<>>)
                   ELSE [tools |-> <<>>, warnings |-> <<>>]
    IN [agent |-> [name |-> name,
                   role |-> IF role_match.found THEN strip(role_match.text)
                            ELSE <<"D", "e", "f", "a", "u", "l", "t", " ", "R", "o", "l", "e">>,
                   goal |-> IF goal_match.found THEN strip(goal_match.text)
                            ELSE <<"D", "e", "f", "a", "u", "l", "t", " ", "G", "o", "a", "l">>,
                   backstory |-> IF backstory_match.found
                                 THEN strip(backstory_match.text) ELSE <<>>,
                   verbose |-> TRUE,
                   allow_delegation |-> FALSE,
                   tools |-> matched.tools],
        warnings |-> matched.warnings]

\* Lines 140-151: the agent a task is assigned to: the first agent, or the
\* first agent whose name or role is the text after "agent", ignoring case.
\* The empty name stands for None as well: `not assigned_agent` holds of both.
AssignedAgent(agent_match, agents) ==
    LET agent_name == strip(agent_match.text)
        hits == {k \in 1..Len(agents) :
                    \/ lower(agents[k].name) = lower(agent_name)
                    \/ lower(agents[k].role) = lower(agent_name)}
    IN IF agents = <<>> THEN <<>>
       ELSE IF agent_match.found /\ hits # {} THEN agents[Min(hits)].name
       ELSE agents[1].name

\* Lines 112-167: the i-th task block (i counted from 0): the task it adds,
\* if any, and the warning it adds otherwise.
ExtractTask(i, task_block, agents) ==
    LET name_match == search(task_block, <<"n", "a", "m", "e">>)
        description_match == search(task_block, <<"d", "e", "s", "c", "r", "i", "p", "t", "i", "o", "n">>)
        output_match == search(task_block, <<"o", "u", "t", "p", "u", "t">>)
        agent_match == search(task_block, kwAgent)
        name == IF name_match.found
                THEN replace(strip(name_match.text), " ", "_")
                ELSE <<"t", "a", "s", "k", "_">> \o str(i + 1)
        assigned_agent == AssignedAgent(agent_match, agents)
    IN IF assigned_agent = <<>>
       THEN [tasks |-> <<>>,
             warnings |-> <<ExtractWarning("task_unassigned", <<>>, name)>>]
       ELSE [tasks |-> <<[name |-> name,
                          description |-> IF description_match.found
                                          THEN strip(description_match.text)
                                          ELSE <<"D", "e", "f", "a", "u", "l", "t", " ", "t", "a", "s", "k", " ", "d", "e", "s", "c", "r", "i", "p", "t", "i", "o", "n">>,
                          expected_output |-> IF output_match.found
                                              THEN strip(output_match.text)
                                              ELSE <<"T", "a", "s", "k", " ", "c", "o", "m", "p", "l", "e", "t", "i", "o", "n", " ", "r", "e", "p", "o", "r", "t">>,
                          agent |-> assigned_agent]>>,
             warnings |-> <<>>]

\* generate_config_from_prompt(prompt): the configuration and the warnings.
generate_config_from_prompt(prompt) ==
    LET agent_blocks == findall(prompt, 1, kwAgent)
        extracted == [i \in 1..Len(agent_blocks) |->
                         ExtractAgent(i - 1, agent_blocks[i])]
        agents == [i \in 1..Len(agent_blocks) |-> extracted[i].agent]
        task_blocks == findall(prompt, 1, kwTask)
        assigned == [i \in 1..Len(task_blocks) |->
                        ExtractTask(i - 1, task_blocks[i], agents)]
    IN [agents |-> agents,
        tasks |-> Concat([i \in 1..Len(task_blocks) |-> assigned[i].tasks]),
        warnings |->
            (IF agent_blocks = <<>>
             THEN <<ExtractWarning("no_agents", <<>>, <<>>)>> ELSE <<>>)
            \o Concat([i \in 1..Len(agent_blocks) |-> extracted[i].warnings])
            \o (IF task_blocks = <<>> /\ agents # <<>>
                THEN <<ExtractWarning("no_tasks", <<>>, <<>>)>> ELSE <<>>)
            \o Concat([i \in 1..Len(task_blocks) |-> assigned[i].warnings])]


(***************************************************************************)
(* Inputs of the extractor                                                 *)
(***************************************************************************)

\* The most agent lines and the most task lines of a prompt.
MaxPromptAgents == 1
MaxPromptTasks == 1

\* What separates the fields of a block, and what separates two blocks.
FieldSeps == {<<" ">>, <<"\n">>}
BlockSeps == {<<" ">>, <<"\n">>, <<"\n", "\n">>}
\* The tools field of an agent, and the agent field of a task; <<>>: none.
ToolFields == {<<>>, <<"t", "o", "o", "l", "s", ":", " ", "s", "e", "r", "p", "e", "r">>, <<"t", "o", "o", "l", "s", ":", " ", "N", "o", "S", "u", "c", "h", "T", "o", "o", "l">>}
AgentFields == {<<>>, <<"a", "g", "e", "n", "t", ":", " ", "a", "1">>, <<"a", "g", "e", "n", "t", ":", " ", "r">>,
                <<"a", "g", "e", "n", "t", ":", " ", "z", "z">>}

AgentLine(i, sep, tools) ==
    <<"A", "g", "e", "n", "t", ":", " ", "n", "a", "m", "e", ":", " ", "a">> \o str(i) \o sep \o <<"r", "o", "l", "e", ":", " ", "R">> \o sep \o <<"g", "o", "a", "l", ":", " ", "G">>
    \o (IF tools = <<>> THEN <<>> ELSE sep \o tools)

TaskLine(i, sep, ref) ==
    <<"T", "a", "s", "k", ":", " ", "n", "a", "m", "e", ":", " ", "t">> \o str(i) \o sep \o <<"d", "e", "s", "c", "r", "i", "p", "t", "i", "o", "n", ":", " ", "D">>
    \o (IF ref = <<>> THEN <<>> ELSE sep \o ref)

RECURSIVE JoinLines(_, _)
JoinLines(lines, sep) ==
    IF lines = <<>> THEN <<>>
    ELSE IF Len(lines) = 1 THEN Head(lines)
    ELSE Head(lines) \o sep \o JoinLines(Tail(lines), sep)

\* A prompt of na agent lines followed by nt task lines.
Prompt(na, nt, sep, blockSep, tools, ref) ==
    JoinLines([i \in 1..na |-> AgentLine(i, sep, tools)]
              \o [i \in 1..nt |-> TaskLine(i, sep, ref)], blockSep)

PromptInputs ==
    {Prompt(na, nt, sep, blockSep, tools, ref) :
        na \in 0..MaxPromptAgents, nt \in 0..MaxPromptTasks,
        sep \in FieldSeps, blockSep \in BlockSeps,
        tools \in ToolFields, ref \in AgentFields}

InitExtract ==
    /\ xPrompt \in PromptInputs
    /\ xOut = [agents |-> <<>>, tasks |-> <<>>, warnings |-> <<>>]
    /\ xPc = "input"
    /\ IdleValidate
    /\ IdleMerge
    /\ IdleRender
    /\ IdleLlm
    /\ IdleApp
    /\ IdleTool

\* One call of generate_config_from_prompt.
Extract ==
    /\ xPc = "input"
    /\ xOut' = generate_config_from_prompt(xPrompt)
    /\ xPc' = "returned"
    /\ UNCHANGED <<xPrompt, validateVars, mergeVars, renderVars, llmVars,
                 appVars,
                 toolVars>>

NextExtract == Extract

SpecExtract == InitExtract /\ [][NextExtract]_vars

(***************************************************************************)
(* Claims about the extractor                                              *)
(***************************************************************************)

\* The text of the example: one agent line and one task line.
OneLinePrompt ==
    Prompt(1, 1, <<" ">>, <<"\n">>, <<>>, <<"a", "g", "e", "n", "t", ":", " ", "a", "1">>)

\* C10: for the text "Agent: name: a1 role: R goal: G\nTask: name: t1
\* description: D agent: a1" the extractor returns exactly one agent, named
\* a1 with role R and goal G, exactly one task, named t1 with description D
\* and agent a1, and no warning.
C10_OneLineExample ==
    (xPc = "returned" /\ xPrompt = OneLinePrompt) =>
        /\ Len(xOut.agents) = 1
        /\ xOut.agents[1].name = <<"a", "1">>
        /\ xOut.agents[1].role = <<"R">>
        /\ xOut.agents[1].goal = <<"G">>
        /\ Len(xOut.tasks) = 1
        /\ xOut.tasks[1].name = <<"t", "1">>
        /\ xOut.tasks[1].description = <<"D">>
        /\ xOut.tasks[1].agent = <<"a", "1">>
        /\ xOut.warnings = <<>>


(***************************************************************************)
(* Tool tokens of the extractor                                            *)
(***************************************************************************)

\* The most tokens in the tools field of a prompt.
MaxToolTokens == 2

SerperTokens ==
    {<<"s", "e", "r", "p", "e", "r">>,
     <<"S", "e", "r", "p", "e", "r", "D", "e", "v", "T", "o", "o", "l">>,
     <<"S", "E", "R", "P", "E", "R", "D", "E", "V">>}
NonexistentToken ==
    <<"n", "o", "n", "e", "x", "i", "s", "t", "e", "n", "t", "t", "o", "o", "l">>
TokenPool ==
    SerperTokens \cup {NonexistentToken, <<"f", "i", "l", "e">>, <<"f", "i", "r", "e", "c", "r", "a", "w", "l">>, <<"s", "e", "a", "r", "c", "h">>}
TokenSeps == {<<",", " ">>, <<";">>}

\* A prompt of one agent whose tools field lists the tokens.
ToolPrompt(tokens, sep) ==
    <<"A", "g", "e", "n", "t", ":", " ", "n", "a", "m", "e", ":", " ", "a", "1", "\n", "t", "o", "o", "l", "s", ":", " ">> \o JoinLines(tokens, sep)

InitExtractTools ==
    /\ \E n \in 1..MaxToolTokens : \E tokens \in [1..n -> TokenPool] :
       \E sep \in TokenSeps : xPrompt = ToolPrompt(tokens, sep)
    /\ xOut = [agents |-> <<>>, tasks |-> <<>>, warnings |-> <<>>]
    /\ xPc = "input"
    /\ IdleValidate
    /\ IdleMerge
    /\ IdleRender
    /\ IdleLlm
    /\ IdleApp
    /\ IdleTool

SpecExtractTools == InitExtractTools /\ [][NextExtract]_vars

\* The token is a prefix of the k-th catalog id (or the whole of it) when
\* the case of letters is ignored.
PrefixOfId(token, k) ==
    /\ Len(token) <= Len(AvailableToolChars[k])
    /\ \A i \in 1..Len(token) :
          lower_char(token[i]) = lower_char(AvailableToolChars[k][i])
ResolvesTo(token, k) ==
    PrefixOfId(token, k) /\ \A j \in 1..(k - 1) : ~PrefixOfId(token, j)
Unresolved(token) == \A k \in 1..Len(AvailableToolChars) : ~PrefixOfId(token, k)

UnknownToolWarningsOf(warnings) ==
    LET IsUnknown(w) == w.kind = "unknown_tool" IN SelectSeq(warnings, IsUnknown)

\* What the claim says of the agent extracted from the tokens.
TokensResolved(tokens, agent, warnings) ==
    LET Known(t) == ~Unresolved(t)
        resolved == SelectSeq(tokens, Known)
        unresolved == SelectSeq(tokens, Unresolved)
    IN /\ Len(agent.tools) = Len(resolved)
       /\ \A i \in 1..Len(resolved) :
             \E k \in 1..Len(AvailableTools) :
                ResolvesTo(resolved[i], k) /\ agent.tools[i] = AvailableTools[k]
       /\ UnknownToolWarningsOf(warnings) =
             [i \in 1..Len(unresolved) |->
                 ExtractWarning("unknown_tool", unresolved[i], agent.name)]
       /\ \A i \in 1..Len(resolved) :
             resolved[i] \in SerperTokens
                => agent.tools[i] = "SerperDevTool"
       /\ NonexistentToken \in Range(tokens) => NonexistentToken \in Range(unresolved)

\* C11: every tool token resolves to the first catalog id, in catalog
\* order, that it equals or is a prefix of when case is ignored (serper,
\* SerperDevTool and SERPERDEV resolve to SerperDevTool); a token that
\* matches no catalog id adds no tool and exactly one warning.
C11_ToolTokensResolve ==
    \A n \in 1..MaxToolTokens : \A tokens \in [1..n -> TokenPool] :
       \A sep \in TokenSeps :
          (xPc = "returned" /\ xPrompt = ToolPrompt(tokens, sep)) =>
             /\ Len(xOut.agents) = 1
             /\ TokensResolved(tokens, xOut.agents[1], xOut.warnings)

C11_Witness ==
    /\ xPc = "returned"
    /\ xPrompt = ToolPrompt(<<<<"f", "i", "l", "e">>, NonexistentToken>>, <<",", " ">>)
    /\ xOut.agents[1].tools = <<"FileReadTool">>
    /\ Len(UnknownToolWarningsOf(xOut.warnings)) = 1


(***************************************************************************)
(* generate_crew_with_llm, call_openai_api, call_openrouter_api            *)
(* (src/utils/llm_generator.py)                                            *)
(*                                                                         *)
(* A provider's answer is one of: "transport" (the request raises),        *)
(* "status" (a non-success response), "bad_json" (a reply that json.loads  *)
(* rejects), "parsed" (a reply that json.loads turns into `config`).       *)
(***************************************************************************)

\* A warning string of the model-assisted extractor, by its kind.
LlmWarning(kind) == Warning(kind, "", <<>>, <<>>)

\* return {"agents": [], "tasks": []}, [warning]
EmptyWith(kind) == Returned(<<>>, <<>>, <<LlmWarning(kind)>>)

\* An entry of the call log.
Call(fn, model) == [fn |-> fn, model |-> model]

\* What a provider function hands back: its result and the calls it made.
Outcome(out, calls) == [out |-> out, calls |-> calls]

\* validate_crew_config(config) inside the try block of a provider function:
\* a TypeError raised by the validator is caught by `except Exception`.
Caught(v, kind) ==
    Outcome(IF v.raised THEN EmptyWith(kind) ELSE v,
            <<Call("validate_crew_config", "")>>)

ValidatedOr(config, kind) == Caught(validate_crew_config(config), kind)

\* The outcome of a provider function that made the calls of `inner` after
\* being called itself.
After(me, inner) == Outcome(inner.out, <<me>> \o inner.calls)

\* call_openai_api(system_msg, user_prompt, model)
call_openai_api(env, answer, model) ==
    LET me == Call("call_openai_api", model)
    IN IF ~env.OPENAI_API_KEY THEN Outcome(EmptyWith("openai_no_key"), <<me>>)
       ELSE IF answer.kind = "parsed"
       THEN After(me, ValidatedOr(answer.config, "openai_error"))
       ELSE IF answer.kind = "bad_json"
       THEN Outcome(EmptyWith("openai_bad_json"), <<me>>)
       ELSE Outcome(EmptyWith("openai_error"), <<me>>)

\* A variant of the OpenRouter call that lets its failures escape as
\* exceptions instead of returning them as warnings.
call_openrouter_api_raising(env, answer, model) ==
    LET me == Call("call_openrouter_api", model)
    IN IF env.OPENROUTER_API_KEY /\ answer.kind = "parsed"
       THEN After(me, ValidatedOr(answer.config, "openrouter_error"))
       ELSE Outcome(Raised, <<me>>)

\* call_openrouter_api(system_msg, user_prompt, model): every exception of
\* the request and of the parsing is caught inside the function.
call_openrouter_api(env, answer, model) ==
    LET me == Call("call_openrouter_api", model)
    IN IF ~env.OPENROUTER_API_KEY
       THEN Outcome(EmptyWith("openrouter_no_key"), <<me>>)
       ELSE IF answer.kind = "status"
       THEN Outcome(EmptyWith("openrouter_status"), <<me>>)
       ELSE IF answer.kind = "parsed"
       THEN After(me, ValidatedOr(answer.config, "openrouter_error"))
       ELSE IF answer.kind = "bad_json"
       THEN Outcome(EmptyWith("openrouter_bad_json"), <<me>>)
       ELSE Outcome(EmptyWith("openrouter_error"), <<me>>)

\* Python truth of existing_config (None and {} are false) and of
\* existing_config.get(key).
Truthy(existing_config) ==
    /\ existing_config.kind = "dict"
    /\ existing_config.agents.tag # "absent" \/ existing_config.tasks.tag # "absent"
GetTruthy(value) == value.tag = "list" /\ value.items # <<>>

\* existing_config.get(key, [])
GetOrEmpty(value) == IF value.tag = "absent" THEN <<>> ELSE value.items

\* Lines 59-69, outside the try block: agent['role'], agent['goal'],
\* task['name'] and task['description'] raise KeyError when missing.
SystemMsgRaises(existing_config) ==
    /\ Truthy(existing_config)
    /\ \/ /\ GetTruthy(existing_config.agents)
          /\ \E i \in 1..Len(existing_config.agents.items) :
                LET agent == existing_config.agents.items[i]
                IN agent.role.tag = "absent" \/ agent.goal.tag = "absent"
       \/ /\ GetTruthy(existing_config.tasks)
          /\ \E i \in 1..Len(existing_config.tasks.items) :
                LET task == existing_config.tasks.items[i]
                IN task.name.tag = "absent" \/ task.description.tag = "absent"

\* Lines 112-121: the lists the update scope takes from existing_config.
ApplyScope(out, existing_config, update_scope) ==
    IF Truthy(existing_config) /\ update_scope = "agents"
    THEN Returned(out.agents, GetOrEmpty(existing_config.tasks), out.warnings)
    ELSE IF Truthy(existing_config) /\ update_scope = "tasks"
    THEN Returned(GetOrEmpty(existing_config.agents), out.tasks, out.warnings)
    ELSE out

\* Lines 84-106: the OpenRouter attempt; the except branch runs when
\* call_openrouter_api raises. `final` marks the return of line 104, which
\* leaves the function at once.
Fallback(first, second) ==
    [out |-> Returned(second.out.agents, second.out.tasks,
                      <<LlmWarning("openrouter_failed_fallback")>>
                      \o second.out.warnings
                      \o <<LlmWarning("fallback_used")>>),
     calls |-> first.calls \o second.calls,
     final |-> FALSE]

AfterOpenRouter(first, in) ==
    IF ~first.out.raised
    THEN [out |-> first.out, calls |-> first.calls, final |-> FALSE]
    ELSE IF in.env.OPENAI_API_KEY
    THEN Fallback(first, call_openai_api(in.env, in.openai, "gpt-3.5-turbo"))
    ELSE [out |-> EmptyWith("openrouter_failed_no_key"),
          calls |-> first.calls, final |-> TRUE]

OpenRouterAttempt(in) ==
    AfterOpenRouter(call_openrouter_api(in.env, in.openrouter, in.model), in)

\* generate_crew_with_llm(user_prompt, provider, model, existing_config,
\* update_scope)
\* Lines 110-121: what follows the provider call inside the try block,
\* unless the function has already returned.
Scoped(r, in) ==
    IF "final" \in DOMAIN r /\ r.final THEN Outcome(r.out, r.calls)
    ELSE Outcome(ApplyScope(r.out, in.existing_config, in.update_scope), r.calls)

generate_crew_with_llm(in) ==
    IF SystemMsgRaises(in.existing_config) THEN Outcome(Raised, <<>>)
    ELSE IF in.provider = "openai"
    THEN Scoped(call_openai_api(in.env, in.openai, in.model), in)
    ELSE IF in.provider = "openrouter"
    THEN Scoped(OpenRouterAttempt(in), in)
    ELSE Outcome(EmptyWith("unsupported_provider"), <<>>)

(***************************************************************************)
(* Inputs of the model-assisted extractor                                  *)
(***************************************************************************)

\* Replies that json.loads accepts: a sound configuration, one the
\* validator has to repair, and one on which the validator raises.
SoundReply ==
    [kind |-> "dict",
     agents |-> List(<<[name |-> Str(<<"a">>), tools |-> List(<<"SerperDevTool">>)]>>),
     tasks |-> List(<<[name |-> Str(<<"t">>), agent |-> Str(<<"a">>)]>>)]
DamagedReply ==
    [kind |-> "dict",
     agents |-> List(<<[name |-> Str(<<"a", " ">>), tools |-> List(<<"NoSuchTool">>)]>>),
     tasks |-> List(<<[name |-> Absent, agent |-> Str(<<"z">>)]>>)]
NullReply == [kind |-> "dict", agents |-> Null, tasks |-> NoKey]

Answers ==
    {[kind |-> k, config |-> NullReply] : k \in {"transport", "status", "bad_json"}}
    \cup {[kind |-> "parsed", config |-> c] :
             c \in {SoundReply, DamagedReply, NullReply}}

\* Agents and tasks of an existing configuration; a field may be missing.
ExistingAgents ==
    [name : {Str(<<"e", "a">>)}, role : {Absent, Str(<<"R">>)}, goal : {Str(<<"G">>)}]
ExistingTasks ==
    [name : {Str(<<"e", "t">>)}, description : {Absent, Str(<<"D">>)},
     agent : {Str(<<"e", "a">>)}]

\* existing_config: None, {} or a mapping with at most one agent and task.
ExistingConfigs ==
    {[kind |-> "none", agents |-> NoKey, tasks |-> NoKey]}
    \cup [kind : {"dict"},
          agents : {NoKey, List(<<>>)} \cup {List(<<a>>) : a \in ExistingAgents},
          tasks : {NoKey, List(<<>>)} \cup {List(<<t>>) : t \in ExistingTasks}]

\* The answer of a provider that the call cannot reach is left at one value:
\* OpenRouter is only tried for provider openrouter, no provider for an
\* unsupported one.
Relevant(in) ==
    LET unused == [kind |-> "transport", config |-> NullReply]
    IN  /\ in.provider # "openrouter" => in.openrouter = unused
        /\ in.provider \notin {"openai", "openrouter"} => in.openai = unused

InitLlm ==
    /\ \E provider \in {"openai", "openrouter", "anthropic"} :
       \E model \in {"", "m"} :
       \E update_scope \in {"all", "agents", "tasks"} :
       \E existing_config \in ExistingConfigs :
       \E env \in [OPENAI_API_KEY : BOOLEAN, OPENROUTER_API_KEY : BOOLEAN] :
       \E openai \in Answers : \E openrouter \in Answers :
          /\ lIn = [provider |-> provider, model |-> model,
                    update_scope |-> update_scope,
                    existing_config |-> existing_config, env |-> env,
                    openai |-> openai, openrouter |-> openrouter]
          /\ Relevant(lIn)
    /\ lOut = NoOutput
    /\ lCalls = <<>>
    /\ lPc = "input"
    /\ IdleValidate
    /\ IdleMerge
    /\ IdleRender
    /\ IdleExtract
    /\ IdleApp
    /\ IdleTool

\* One call of generate_crew_with_llm.
Generate ==
    /\ lPc = "input"
    /\ \E r \in {generate_crew_with_llm(lIn)} :
          /\ lOut' = r.out
          /\ lCalls' = r.calls
          /\ lPc' = IF r.out.raised THEN "raised" ELSE "returned"
    /\ UNCHANGED <<lIn, validateVars, mergeVars, renderVars, extractVars, appVars,
                 toolVars>>

NextLlm == Generate

SpecLlm == InitLlm /\ [][NextLlm]_vars

(***************************************************************************)
(* Claims about the model-assisted extractor                               *)
(***************************************************************************)

\* The provider outcomes the claims call failures.
OpenAIFailed(in) == ~in.env.OPENAI_API_KEY \/ in.openai.kind # "parsed"
OpenRouterFailed(in) == ~in.env.OPENROUTER_API_KEY \/ in.openrouter.kind # "parsed"
ProviderFailed(in) ==
    \/ in.provider = "openai" /\ OpenAIFailed(in)
    \/ in.provider = "openrouter" /\ OpenRouterFailed(in)

\* The calls of a function in the call log.
CallsOf(fn) == LET Is(c) == c.fn = fn IN SelectSeq(lCalls, Is)
FallbackCalls ==
    LET Is(c) == c = Call("call_openai_api", "gpt-3.5-turbo")
    IN SelectSeq(lCalls, Is)

\* C12: generate_crew_with_llm never lets an exception escape, whatever the
\* provider, the provider outcome and the existing configuration; when the
\* provider fails, the returned configuration has no agents and no tasks
\* and the warning list is not empty.
C12_NoEscapeEmptyOnFailure ==
    /\ lPc # "raised"
    /\ (lPc = "returned" /\ ProviderFailed(lIn)) =>
          /\ lOut.agents = <<>>
          /\ lOut.tasks = <<>>
          /\ lOut.warnings # <<>>

\* C13: with provider openrouter, a failed OpenRouter attempt and
\* OPENAI_API_KEY set, exactly one fallback call of call_openai_api with
\* model gpt-3.5-turbo is made before the function returns; with provider
\* openai there is no fallback call.
C13_OneFallbackCall ==
    lPc = "returned" =>
       /\ (lIn.provider = "openrouter" /\ OpenRouterFailed(lIn)
           /\ lIn.env.OPENAI_API_KEY) => Len(FallbackCalls) = 1
       /\ lIn.provider = "openai" => FallbackCalls = <<>>

\* The warning that describes why the OpenRouter attempt failed.
OpenRouterFailure(in) ==
    IF ~in.env.OPENROUTER_API_KEY THEN LlmWarning("openrouter_no_key")
    ELSE IF in.openrouter.kind = "status" THEN LlmWarning("openrouter_status")
    ELSE IF in.openrouter.kind = "bad_json" THEN LlmWarning("openrouter_bad_json")
    ELSE LlmWarning("openrouter_error")

\* C14: when the OpenRouter attempt fails and OPENAI_API_KEY is not set, no
\* further provider call is made and the returned warnings contain the
\* warning that describes the OpenRouter failure.
C14_OriginalFailureSurfaced ==
    (lPc = "returned" /\ lIn.provider = "openrouter" /\ OpenRouterFailed(lIn)
     /\ ~lIn.env.OPENAI_API_KEY) =>
       /\ CallsOf("call_openai_api") = <<>>
       /\ Len(CallsOf("call_openrouter_api")) = 1
       /\ OpenRouterFailure(lIn) \in Range(lOut.warnings)

C14_Witness ==
    /\ lPc = "returned"
    /\ lIn.provider = "openrouter"
    /\ lIn.env = [OPENAI_API_KEY |-> FALSE, OPENROUTER_API_KEY |-> TRUE]
    /\ lIn.openrouter.kind = "status"
    /\ lCalls = <<Call("call_openrouter_api", lIn.model)>>
    /\ lOut.warnings = <<LlmWarning("openrouter_status")>>

\* C16: called with an existing configuration and update_scope "agents",
\* the function returns a configuration whose task list is the existing
\* task list, whatever the model produced and whether or not the provider
\* call succeeded; with update_scope "tasks" the same holds of the agents.
C16_ScopeKeepsOtherList ==
    (lPc # "input" /\ lIn.existing_config.kind = "dict") =>
       /\ lIn.update_scope = "agents" =>
             /\ lPc = "returned"
             /\ lOut.tasks = GetOrEmpty(lIn.existing_config.tasks)
       /\ lIn.update_scope = "tasks" =>
             /\ lPc = "returned"
             /\ lOut.agents = GetOrEmpty(lIn.existing_config.agents)

\* C22: in every configuration generate_crew_with_llm returns, under every
\* update_scope and every existing_config, each task's agent is the name
\* of an agent of the returned agent list, also after the scope step has
\* put the existing task list or the existing agent list into the result.
C22_ReturnedTasksResolve ==
    lPc = "returned" =>
       \A i \in 1..Len(lOut.tasks) :
           /\ "agent" \in DOMAIN lOut.tasks[i]
           /\ lOut.tasks[i].agent \in Range(AgentNames(lOut.agents))

(***************************************************************************)
(* generate_agents, AgentGenerator.analyze_prompt                          *)
(* (src/generators/agent_generator.py), get_default_config                 *)
(* (src/utils/prompts.py) and the Generate button of main (src/app.py).    *)
(*                                                                         *)
(* Here a configuration is a function from the keys it holds to lists of   *)
(* items, an item a function from the fields it holds, as json.loads       *)
(* builds them; None is a value of its own.                                *)
(***************************************************************************)

None == [none |-> TRUE]

\* get_default_config(framework)
get_default_config(framework) ==
    IF framework = "crewai"
    THEN [agents |-> <<[name |-> "default_assistant", role |-> "General Assistant",
                        goal |-> "Help with basic tasks",
                        backstory |-> "Versatile assistant with general knowledge",
                        tools |-> <<"basic_tool">>, verbose |-> TRUE,
                        allow_delegation |-> FALSE]>>,
          tasks |-> <<[name |-> "basic_task", description |-> "Handle basic requests",
                       tools |-> <<"basic_tool">>, agent |-> "default_assistant",
                       expected_output |-> "Task completion"]>>]
    ELSE IF framework = "langgraph"
    THEN [agents |-> <<[name |-> "default_assistant", role |-> "General Assistant",
                        goal |-> "Help with basic tasks",
                        tools |-> <<"basic_tool">>, llm |-> "gpt-4"]>>,
          nodes |-> <<[name |-> "process_input", description |-> "Process user input",
                       agent |-> "default_assistant"]>>,
          edges |-> <<[source |-> "process_input", target |-> "END",
                       condition |-> "task completed"]>>]
    ELSE <<>>

\* AgentGenerator._initialize_model: TRUE when it raises (no API key, or
\* the construction of the chat model fails).
InitializeModelRaises(in) == ~in.api_key \/ in.init = "error"

\* AgentGenerator.analyze_prompt(user_prompt, framework, model_id): the
\* value returned and the calls made; _initialize_model runs before the
\* try block, so its exception leaves the method.
analyze_prompt(in) ==
    IF InitializeModelRaises(in)
    THEN [raised |-> TRUE, value |-> None, calls |-> <<"_initialize_model">>]
    ELSE IF in.answer.kind = "parsed"
    THEN [raised |-> FALSE, value |-> in.answer.config,
          calls |-> <<"_initialize_model", "json.loads">>]
    ELSE IF in.answer.kind = "bad_json"
    THEN [raised |-> FALSE, value |-> get_default_config(in.framework),
          calls |-> <<"_initialize_model", "json.loads", "get_default_config">>]
    ELSE [raised |-> FALSE, value |-> get_default_config(in.framework),
          calls |-> <<"_initialize_model", "get_default_config">>]

\* generate_agents(prompt, framework, model_id): any exception gives None.
generate_agents(in) ==
    LET r == analyze_prompt(in)
    IN [value |-> IF r.raised THEN None ELSE r.value,
        calls |-> <<"generate_agents", "analyze_prompt">> \o r.calls]

\* Every item of the list holds every one of the fields.
AllHave(items, fields) == \A i \in 1..Len(items) : fields \subseteq DOMAIN items[i]

\* create_code_block(config, framework) raises: the configuration is None
\* or lacks a key or a field the generator subscripts.
CodeBlockRaises(config, framework) ==
    IF framework = "crewai"
    THEN \/ config = None
         \/ ~({"agents", "tasks"} \subseteq DOMAIN config)
         \/ ~AllHave(config.agents, {"name", "role", "goal", "backstory",
                                     "verbose", "allow_delegation"})
         \/ ~AllHave(config.tasks, {"name", "description", "agent",
                                    "expected_output"})
    ELSE IF framework = "langgraph"
    THEN \/ config = None
         \/ ~({"agents", "nodes", "edges"} \subseteq DOMAIN config)
         \/ ~AllHave(config.agents, {"tools", "name", "role", "llm"})
         \/ ~AllHave(config.nodes, {"name", "agent"})
         \/ ~AllHave(config.edges, {"source", "target"})
    ELSE FALSE

\* st.session_state[key] = value
Put(session, key, value) ==
    [k \in DOMAIN session \cup {key} |-> IF k = key THEN value ELSE session[k]]

(***************************************************************************)
(* The Generate button                                                     *)
(***************************************************************************)

\* The most clicks on Generate in one session.
MaxClicks == 2

\* Replies that json.loads accepts: a flat configuration, a graph
\* configuration, and an object that holds only part of a configuration.
CrewReply ==
    [agents |-> <<[name |-> "a1", role |-> "R", goal |-> "G", backstory |-> "B",
                   tools |-> <<"SerperDevTool", "BrowserTool">>, verbose |-> TRUE,
                   allow_delegation |-> FALSE]>>,
     tasks |-> <<[name |-> "t1", description |-> "D", agent |-> "a1",
                  expected_output |-> "E"]>>]
GraphReply ==
    [agents |-> <<[name |-> "a1", role |-> "R", goal |-> "G",
                   tools |-> <<"SerperDevTool", "BrowserTool">>, llm |-> "gpt-4"]>>,
     nodes |-> <<[name |-> "n1", description |-> "D", agent |-> "a1"]>>,
     edges |-> <<[source |-> "n1", target |-> "END", condition |-> "done"]>>]
PartialReply == [agents |-> <<[name |-> "a 1", tools |-> <<"NoSuchTool">>]>>]
\* A graph configuration whose node names no agent of the list and whose
\* edge leads to no node of the list.
DanglingGraphReply ==
    [agents |-> <<[name |-> "a1", role |-> "R", goal |-> "G",
                   tools |-> <<"SerperDevTool">>, llm |-> "gpt-4"]>>,
     nodes |-> <<[name |-> "n1", description |-> "D", agent |-> "zz"]>>,
     edges |-> <<[source |-> "n1", target |-> "n9", condition |-> "c"]>>]

ModelAnswers ==
    {[kind |-> k, config |-> None] : k \in {"error", "no_json", "bad_json"}}
    \cup {[kind |-> "parsed", config |-> c] :
             c \in {CrewReply, GraphReply, PartialReply, DanglingGraphReply}}

ClickInputs ==
    [framework : {"crewai", "langgraph"}, api_key : BOOLEAN,
     init : {"ok", "error"}, answer : ModelAnswers]

\* The iteration orders of the interpreter process that runs the session.
AppSeeds ==
    {[tools |-> <<"SerperDevTool", "BrowserTool", "basic_tool">>,
      env |-> <<"SERPER_API_KEY", "BROWSERLESS_API_KEY">>],
     [tools |-> <<"basic_tool", "BrowserTool", "SerperDevTool">>,
      env |-> <<"BROWSERLESS_API_KEY", "SERPER_API_KEY">>]}

\* A fresh session: no click yet, nothing stored.
InitApp ==
    /\ IdleApp
    /\ IdleTool
    /\ hashSeed \in AppSeeds
    /\ rConfig = [agents |-> <<>>, tasks |-> <<>>, nodes |-> <<>>, edges |-> <<>>]
    /\ rFramework = "idle"
    /\ rOut = <<>>
    /\ IdleValidate
    /\ IdleMerge
    /\ IdleExtract
    /\ IdleLlm

\* main, lines 156-190: one click on Generate. Without an API key only an
\* error is shown. Otherwise the configuration is stored, then the code is
\* generated and stored with the framework; an exception of
\* create_code_block is caught after the configuration was stored.
Click ==
    /\ gClicks < MaxClicks
    /\ \E in \in ClickInputs :
          /\ gIn' = in
          /\ IF ~in.api_key
             THEN /\ gPc' = "no_key"
                  /\ gCalls' = <<>>
                  /\ gSession' = gSession
             ELSE LET r == generate_agents(in)
                      stored == Put(gSession, "config", r.value)
                  IN /\ gCalls' = r.calls \o <<"create_code_block">>
                     /\ IF CodeBlockRaises(r.value, in.framework)
                        THEN /\ gSession' = stored
                             /\ gPc' = "failed"
                        ELSE /\ gSession' =
                                  Put(Put(stored, "code",
                                          create_code_block(r.value, in.framework,
                                                            hashSeed)),
                                      "framework", in.framework)
                             /\ gPc' = "done"
    /\ gClicks' = gClicks + 1
    /\ UNCHANGED <<validateVars, mergeVars, renderVars, extractVars, llmVars,
                 toolVars>>

NextApp == Click

SpecApp == InitApp /\ [][NextApp]_vars

(***************************************************************************)
(* Claims about generate_agents and the Generate button                    *)
(***************************************************************************)

\* The latest click called generate_agents.
Generated == gPc \in {"done", "failed"}

\* C15: on every path where a model reply is parsed into a configuration,
\* here AgentGenerator.analyze_prompt, the parsed configuration goes
\* through validate_crew_config before the caller receives it.
C15_ParsedIsValidated ==
    (Generated /\ ~InitializeModelRaises(gIn) /\ gIn.answer.kind = "parsed") =>
       "validate_crew_config" \in Range(gCalls)

\* The ways generate_agents / analyze_prompt fail: no API key, model
\* initialisation error, provider error, reply without a JSON object.
GenerationFailed(in) ==
    InitializeModelRaises(in) \/ in.answer.kind \in {"error", "no_json"}

\* The list keys the generator of the framework reads.
ListKeys(framework) ==
    IF framework = "crewai" THEN {"agents", "tasks"} ELSE {"agents", "nodes", "edges"}

\* C19: however configuration generation fails, the value handed to the
\* code generator is a configuration mapping that holds the list keys the
\* selected framework's generator reads, never an absent value, and
\* create_code_block does not fail on it.
C19_FailureGivesConfig ==
    (Generated /\ GenerationFailed(gIn)) =>
       /\ gSession.config # None
       /\ ListKeys(gIn.framework) \subseteq DOMAIN gSession.config
       /\ gPc = "done"


(***************************************************************************)
(* Tool utilities: get_tool_env_requirements and validate_tool_parameters  *)
(*                                                                         *)
(* Python values whose type the code inspects carry it: a str is its       *)
(* characters, an int its number, a bool its truth value, a float its      *)
(* value in tenths, a list its items; None is the value None.  A dict is   *)
(* the sequence of its (name, value) pairs in insertion order.             *)
(***************************************************************************)

\* tools[id]["parameters"] of get_available_tools(), in dictionary order:
\* the name, the declared type and the required flag of each parameter.
ToolParameters ==
    <<
      [tool |-> "SerperDevTool", parameters |-> <<
          [name |-> "api_key", type |-> "str", required |-> TRUE],
          [name |-> "search_type", type |-> "str", required |-> FALSE],
          [name |-> "include_answer", type |-> "bool", required |-> FALSE],
          [name |-> "include_images", type |-> "bool", required |-> FALSE],
          [name |-> "num_results", type |-> "int", required |-> FALSE]>>],
      [tool |-> "SearXSearchTool", parameters |-> <<
          [name |-> "searx_host", type |-> "str", required |-> TRUE],
          [name |-> "engines", type |-> "list", required |-> FALSE],
          [name |-> "num_results", type |-> "int", required |-> FALSE],
          [name |-> "language", type |-> "str", required |-> FALSE]>>],
      [tool |-> "GoogleSearchTool", parameters |-> <<
          [name |-> "api_key", type |-> "str", required |-> TRUE],
          [name |-> "cse_id", type |-> "str", required |-> TRUE],
          [name |-> "num_results", type |-> "int", required |-> FALSE]>>],
      [tool |-> "BrowserTool", parameters |-> <<
          [name |-> "headless", type |-> "bool", required |-> FALSE],
          [name |-> "browser_type", type |-> "str", required |-> FALSE],
          [name |-> "proxy", type |-> "str", required |-> FALSE]>>],
      [tool |-> "FileReadTool", parameters |-> <<
          [name |-> "file_path", type |-> "str", required |-> TRUE],
          [name |-> "encoding", type |-> "str", required |-> FALSE]>>],
      [tool |-> "FileWriteTool", parameters |-> <<
          [name |-> "directory_path", type |-> "str", required |-> TRUE],
          [name |-> "overwrite", type |-> "bool", required |-> FALSE]>>],
      [tool |-> "PythonREPLTool", parameters |-> <<
          [name |-> "timeout", type |-> "int", required |-> FALSE]>>],
      [tool |-> "TavilySearchTool", parameters |-> <<
          [name |-> "api_key", type |-> "str", required |-> TRUE],
          [name |-> "search_depth", type |-> "str", required |-> FALSE],
          [name |-> "max_results", type |-> "int", required |-> FALSE],
          [name |-> "include_answer", type |-> "bool", required |-> FALSE],
          [name |-> "include_images", type |-> "bool", required |-> FALSE],
          [name |-> "include_raw_content", type |-> "bool", required |-> FALSE]>>],
      [tool |-> "BrowserbaseLoadTool", parameters |-> <<
          [name |-> "url", type |-> "str", required |-> TRUE],
          [name |-> "browserbase_key", type |-> "str", required |-> TRUE]>>],
      [tool |-> "CodeDocsSearchTool", parameters |-> <<
          [name |-> "docs_path", type |-> "str", required |-> TRUE],
          [name |-> "top_k", type |-> "int", required |-> FALSE]>>],
      [tool |-> "CodeInterpreterTool", parameters |-> <<
          [name |-> "allow_filesystem_access", type |-> "bool", required |-> FALSE],
          [name |-> "allow_network_access", type |-> "bool", required |-> FALSE]>>],
      [tool |-> "ComposioTool", parameters |-> <<
          [name |-> "api_key", type |-> "str", required |-> TRUE],
          [name |-> "tool_name", type |-> "str", required |-> TRUE]>>],
      [tool |-> "CSVSearchTool", parameters |-> <<
          [name |-> "csv_file", type |-> "str", required |-> TRUE],
          [name |-> "top_k", type |-> "int", required |-> FALSE]>>],
      [tool |-> "DALL-E Tool", parameters |-> <<
          [name |-> "api_key", type |-> "str", required |-> TRUE],
          [name |-> "model", type |-> "str", required |-> FALSE],
          [name |-> "size", type |-> "str", required |-> FALSE],
          [name |-> "quality", type |-> "str", required |-> FALSE]>>],
      [tool |-> "DirectorySearchTool", parameters |-> <<
          [name |-> "directory_path", type |-> "str", required |-> TRUE],
          [name |-> "recursive", type |-> "bool", required |-> FALSE],
          [name |-> "top_k", type |-> "int", required |-> FALSE]>>],
      [tool |-> "DOCXSearchTool", parameters |-> <<
          [name |-> "docx_file", type |-> "str", required |-> TRUE],
          [name |-> "top_k", type |-> "int", required |-> FALSE]>>],
      [tool |-> "DirectoryReadTool", parameters |-> <<
          [name |-> "directory_path", type |-> "str", required |-> TRUE],
          [name |-> "recursive", type |-> "bool", required |-> FALSE],
          [name |-> "file_pattern", type |-> "str", required |-> FALSE]>>],
      [tool |-> "EXASearchTool", parameters |-> <<
          [name |-> "api_key", type |-> "str", required |-> TRUE],
          [name |-> "num_results", type |-> "int", required |-> FALSE],
          [name |-> "use_highlights", type |-> "bool", required |-> FALSE]>>],
      [tool |-> "FirecrawlSearchTool", parameters |-> <<
          [name |-> "api_key", type |-> "str", required |-> TRUE],
          [name |-> "max_results", type |-> "int", required |-> FALSE]>>],
      [tool |-> "FirecrawlCrawlWebsiteTool", parameters |-> <<
          [name |-> "api_key", type |-> "str", required |-> TRUE],
          [name |-> "url", type |-> "str", required |-> TRUE],
          [name |-> "max_pages_to_crawl", type |-> "int", required |-> FALSE],
          [name |-> "max_depth", type |-> "int", required |-> FALSE],
          [name |-> "enable_javascript", type |-> "bool", required |-> FALSE]>>],
      [tool |-> "FirecrawlScrapeWebsiteTool", parameters |-> <<
          [name |-> "api_key", type |-> "str", required |-> TRUE],
          [name |-> "url", type |-> "str", required |-> TRUE],
          [name |-> "enable_javascript", type |-> "bool", required |-> FALSE]>>],
      [tool |-> "GithubSearchTool", parameters |-> <<
          [name |-> "token", type |-> "str", required |-> TRUE],
          [name |-> "repo", type |-> "str", required |-> TRUE],
          [name |-> "branch", type |-> "str", required |-> FALSE],
          [name |-> "top_k", type |-> "int", required |-> FALSE]>>],
      [tool |-> "TXTSearchTool", parameters |-> <<
          [name |-> "txt_file", type |-> "str", required |-> TRUE],
          [name |-> "top_k", type |-> "int", required |-> FALSE]>>],
      [tool |-> "JSONSearchTool", parameters |-> <<
          [name |-> "json_file", type |-> "str", required |-> TRUE],
          [name |-> "top_k", type |-> "int", required |-> FALSE]>>],
      [tool |-> "LlamaIndexTool", parameters |-> <<
          [name |-> "index_path", type |-> "str", required |-> TRUE],
          [name |-> "query_engine_kwargs", type |-> "dict", required |-> FALSE]>>],
      [tool |-> "MDXSearchTool", parameters |-> <<
          [name |-> "mdx_file", type |-> "str", required |-> TRUE],
          [name |-> "top_k", type |-> "int", required |-> FALSE]>>],
      [tool |-> "PDFSearchTool", parameters |-> <<
          [name |-> "pdf_file", type |-> "str", required |-> TRUE],
          [name |-> "top_k", type |-> "int", required |-> FALSE]>>],
      [tool |-> "PGSearchTool", parameters |-> <<
          [name |-> "connection_string", type |-> "str", required |-> TRUE],
          [name |-> "table_name", type |-> "str", required |-> TRUE],
          [name |-> "top_k", type |-> "int", required |-> FALSE]>>],
      [tool |-> "Vision Tool", parameters |-> <<
          [name |-> "api_key", type |-> "str", required |-> TRUE],
          [name |-> "model", type |-> "str", required |-> FALSE]>>],
      [tool |-> "RagTool", parameters |-> <<
          [name |-> "data_source", type |-> "str", required |-> TRUE],
          [name |-> "embeddings_model", type |-> "str", required |-> FALSE],
          [name |-> "top_k", type |-> "int", required |-> FALSE]>>],
      [tool |-> "ScrapeElementFromWebsiteTool", parameters |-> <<
          [name |-> "url", type |-> "str", required |-> TRUE],
          [name |-> "selector", type |-> "str", required |-> TRUE],
          [name |-> "headless", type |-> "bool", required |-> FALSE],
          [name |-> "wait_for", type |-> "float", required |-> FALSE]>>],
      [tool |-> "ScrapeWebsiteTool", parameters |-> <<
          [name |-> "url", type |-> "str", required |-> TRUE],
          [name |-> "headless", type |-> "bool", required |-> FALSE],
          [name |-> "wait_for", type |-> "float", required |-> FALSE]>>],
      [tool |-> "WebsiteSearchTool", parameters |-> <<
          [name |-> "url", type |-> "str", required |-> TRUE],
          [name |-> "top_k", type |-> "int", required |-> FALSE],
          [name |-> "enable_javascript", type |-> "bool", required |-> FALSE]>>],
      [tool |-> "XMLSearchTool", parameters |-> <<
          [name |-> "xml_file", type |-> "str", required |-> TRUE],
          [name |-> "top_k", type |-> "int", required |-> FALSE]>>],
      [tool |-> "YoutubeChannelSearchTool", parameters |-> <<
          [name |-> "channel_id", type |-> "str", required |-> TRUE],
          [name |-> "api_key", type |-> "str", required |-> TRUE],
          [name |-> "max_results", type |-> "int", required |-> FALSE],
          [name |-> "caption_language", type |-> "str", required |-> FALSE]>>],
      [tool |-> "YoutubeVideoSearchTool", parameters |-> <<
          [name |-> "video_id", type |-> "str", required |-> TRUE],
          [name |-> "api_key", type |-> "str", required |-> TRUE],
          [name |-> "caption_language", type |-> "str", required |-> FALSE],
          [name |-> "top_k", type |-> "int", required |-> FALSE]>>] >>

\* env_requirements of get_tool_env_requirements, in dictionary order.
env_requirements ==
    <<
      [tool |-> "SerperDevTool", reqs |-> <<
          [env_var |-> "SERPER_API_KEY",
           description |-> "API key for Serper.dev search service"]>>],
      [tool |-> "GoogleSearchTool", reqs |-> <<
          [env_var |-> "GOOGLE_API_KEY",
           description |-> "API key for Google Search"],
          [env_var |-> "GOOGLE_CSE_ID",
           description |-> "Custom Search Engine ID for Google Search"]>>],
      [tool |-> "TavilySearchTool", reqs |-> <<
          [env_var |-> "TAVILY_API_KEY",
           description |-> "API key for Tavily Search API"]>>],
      [tool |-> "BrowserbaseLoadTool", reqs |-> <<
          [env_var |-> "BROWSERBASE_API_KEY",
           description |-> "API key for Browserbase"]>>],
      [tool |-> "ComposioTool", reqs |-> <<
          [env_var |-> "COMPOSIO_API_KEY",
           description |-> "API key for Composio"]>>],
      [tool |-> "DALL-E Tool", reqs |-> <<
          [env_var |-> "OPENAI_API_KEY",
           description |-> "API key for OpenAI DALL-E"]>>],
      [tool |-> "EXASearchTool", reqs |-> <<
          [env_var |-> "EXA_API_KEY",
           description |-> "API key for EXA search service"]>>],
      [tool |-> "FirecrawlSearchTool", reqs |-> <<
          [env_var |-> "FIRECRAWL_API_KEY",
           description |-> "API key for Firecrawl search service"]>>],
      [tool |-> "FirecrawlCrawlWebsiteTool", reqs |-> <<
          [env_var |-> "FIRECRAWL_API_KEY",
           description |-> "API key for Firecrawl crawl service"]>>],
      [tool |-> "FirecrawlScrapeWebsiteTool", reqs |-> <<
          [env_var |-> "FIRECRAWL_API_KEY",
           description |-> "API key for Firecrawl scrape service"]>>],
      [tool |-> "GithubSearchTool", reqs |-> <<
          [env_var |-> "GITHUB_TOKEN",
           description |-> "Personal access token for GitHub"]>>],
      [tool |-> "Vision Tool", reqs |-> <<
          [env_var |-> "OPENAI_API_KEY",
           description |-> "API key for OpenAI Vision API"]>>],
      [tool |-> "YoutubeChannelSearchTool", reqs |-> <<
          [env_var |-> "YOUTUBE_API_KEY",
           description |-> "API key for YouTube Data API"]>>],
      [tool |-> "YoutubeVideoSearchTool", reqs |-> <<
          [env_var |-> "YOUTUBE_API_KEY",
           description |-> "API key for YouTube Data API"]>>],
      [tool |-> "BrowserTool", reqs |-> <<>>],
      [tool |-> "CodeDocsSearchTool", reqs |-> <<>>],
      [tool |-> "CodeInterpreterTool", reqs |-> <<>>],
      [tool |-> "CSVSearchTool", reqs |-> <<>>],
      [tool |-> "DirectorySearchTool", reqs |-> <<>>],
      [tool |-> "DOCXSearchTool", reqs |-> <<>>],
      [tool |-> "DirectoryReadTool", reqs |-> <<>>],
      [tool |-> "FileReadTool", reqs |-> <<>>],
      [tool |-> "FileWriteTool", reqs |-> <<>>],
      [tool |-> "JSONSearchTool", reqs |-> <<>>],
      [tool |-> "LlamaIndexTool", reqs |-> <<>>],
      [tool |-> "MDXSearchTool", reqs |-> <<>>],
      [tool |-> "PDFSearchTool", reqs |-> <<>>],
      [tool |-> "PGSearchTool", reqs |-> <<
          [env_var |-> "DATABASE_URL",
           description |-> "PostgreSQL connection string"]>>],
      [tool |-> "PythonREPLTool", reqs |-> <<>>],
      [tool |-> "RagTool", reqs |-> <<>>],
      [tool |-> "ScrapeElementFromWebsiteTool", reqs |-> <<>>],
      [tool |-> "ScrapeWebsiteTool", reqs |-> <<>>],
      [tool |-> "SearXSearchTool", reqs |-> <<>>],
      [tool |-> "TXTSearchTool", reqs |-> <<>>],
      [tool |-> "WebsiteSearchTool", reqs |-> <<>>],
      [tool |-> "XMLSearchTool", reqs |-> <<>>] >>

StrValue(chars) == [type |-> "str", chars |-> chars]
IntValue(n) == [type |-> "int", n |-> n]
BoolValue(b) == [type |-> "bool", b |-> b]
FloatValue(tenths) == [type |-> "float", tenths |-> tenths]
ListValue(items) == [type |-> "list", items |-> items]

TypeOf(value) == IF value = None THEN "NoneType" ELSE value.type

\* not value
Falsy(value) ==
    CASE TypeOf(value) = "NoneType" -> TRUE
      [] TypeOf(value) = "str" -> value.chars = <<>>
      [] TypeOf(value) = "int" -> value.n = 0
      [] TypeOf(value) = "bool" -> ~value.b
      [] TypeOf(value) = "float" -> value.tenths = 0
      [] TypeOf(value) = "list" -> value.items = <<>>

\* s without a leading sign.
Unsigned(s) == IF s # <<>> /\ s[1] \in {"+", "-"} THEN Tail(s) ELSE s

\* The text is a decimal integer literal: optional sign, one or more digits.
IsIntLiteral(s) ==
    LET body == Unsigned(strip(s))
    IN  body # <<>> /\ \A i \in 1..Len(body) : body[i] \in Range(Digits)

\* The text is a decimal literal: optional sign, digits with at most one
\* point among them, at least one digit.
IsFloatLiteral(s) ==
    LET body == Unsigned(strip(s))
        points == {i \in 1..Len(body) : body[i] = "."}
    IN  /\ \A i \in 1..Len(body) : body[i] \in Range(Digits) \cup {"."}
        /\ Cardinality(points) <= 1
        /\ Len(body) > Cardinality(points)

\* int(value) raises ValueError or TypeError.
IntRaises(value) ==
    CASE TypeOf(value) = "str" -> ~IsIntLiteral(value.chars)
      [] TypeOf(value) \in {"int", "bool", "float"} -> FALSE
      [] OTHER -> TRUE

\* float(value) raises ValueError or TypeError.
FloatRaises(value) ==
    CASE TypeOf(value) = "str" -> ~IsFloatLiteral(value.chars)
      [] TypeOf(value) \in {"int", "bool", "float"} -> FALSE
      [] OTHER -> TRUE

\* The position of the tool's entry in a table keyed by tool id, 0 when the
\* id is not a key.
IndexOf(table, tool) ==
    LET hits == {i \in 1..Len(table) : table[i].tool = tool}
    IN  IF hits = {} THEN 0 ELSE Min(hits)

\* param_name in parameters, parameters[param_name]
HasParam(parameters, name) ==
    \E i \in 1..Len(parameters) : parameters[i].name = name

GetParam(parameters, name) ==
    parameters[CHOOSE i \in 1..Len(parameters) : parameters[i].name = name].value

\* An error message: the f-string's template and the name it is filled with.
ToolError(msg, param) == [msg |-> msg, param |-> param]

InvalidToolName == ToolError("Invalid tool name", "")

MissingRequired(param) ==
    ToolError("Missing required parameter: {param_name}", param)

\* The variant that only looks for absent parameters.
RECURSIVE RequiredErrorsAbsentOnly(_, _)
RequiredErrorsAbsentOnly(expected_params, parameters) ==
    IF expected_params = <<>> THEN <<>>
    ELSE LET p == Head(expected_params)
             missing == p.required /\ ~HasParam(parameters, p.name)
         IN  (IF missing THEN <<MissingRequired(p.name)>> ELSE <<>>)
             \o RequiredErrorsAbsentOnly(Tail(expected_params), parameters)

\* The first loop: one error per required parameter that is absent or falsy.
RECURSIVE RequiredErrors(_, _)
RequiredErrors(expected_params, parameters) ==
    IF expected_params = <<>> THEN <<>>
    ELSE LET p == Head(expected_params)
             missing == /\ p.required
                        /\ \/ ~HasParam(parameters, p.name)
                           \/ Falsy(GetParam(parameters, p.name))
         IN  (IF missing THEN <<MissingRequired(p.name)>> ELSE <<>>)
             \o RequiredErrors(Tail(expected_params), parameters)

\* The type validation of one supplied value.
TypeErrors(expected_params, name, value) ==
    LET hits == {i \in 1..Len(expected_params) : expected_params[i].name = name}
    IN  IF hits = {} THEN <<>>
        ELSE LET p == expected_params[Min(hits)]
             IN  IF Falsy(value) /\ ~p.required THEN <<>>
                 ELSE IF /\ p.type = "int"
                         /\ TypeOf(value) \notin {"int", "bool"}
                         /\ IntRaises(value)
                      THEN <<ToolError("Parameter {param_name} must be an integer", name)>>
                 ELSE IF /\ p.type = "int"
                         /\ TypeOf(value) \notin {"int", "bool"}
                      THEN <<>>
                 ELSE IF /\ p.type = "float"
                         /\ TypeOf(value) # "float"
                         /\ FloatRaises(value)
                      THEN <<ToolError("Parameter {param_name} must be a float", name)>>
                 ELSE IF p.type = "float" /\ TypeOf(value) # "float"
                      THEN <<>>
                 ELSE IF p.type = "bool" /\ TypeOf(value) # "bool"
                      THEN <<ToolError("Parameter {param_name} must be a boolean", name)>>
                 ELSE <<>>

\* The second loop, over the supplied parameters in their order.
RECURSIVE AllTypeErrors(_, _)
AllTypeErrors(expected_params, parameters) ==
    IF parameters = <<>> THEN <<>>
    ELSE TypeErrors(expected_params, Head(parameters).name,
                    Head(parameters).value)
         \o AllTypeErrors(expected_params, Tail(parameters))

\* The list returned, and the parameters mapping as the call leaves it: the
\* function reads the mapping and never assigns to it.
validate_tool_parameters(tool_name, parameters) ==
    LET k == IndexOf(ToolParameters, tool_name)
    IN  IF k = 0
        THEN [errors |-> <<InvalidToolName>>, parameters |-> parameters]
        ELSE LET expected_params == ToolParameters[k].parameters
             IN  [errors |-> RequiredErrors(expected_params, parameters)
                             \o AllTypeErrors(expected_params, parameters),
                  parameters |-> parameters]

\* combined_requirements.extend(env_requirements[tool]) for each listed tool.
RECURSIVE CombinedRequirements(_)
CombinedRequirements(tools) ==
    IF tools = <<>> THEN <<>>
    ELSE LET k == IndexOf(env_requirements, Head(tools))
         IN  (IF k = 0 THEN <<>> ELSE env_requirements[k].reqs)
             \o CombinedRequirements(Tail(tools))

\* The variant that keeps one entry per environment variable.
RECURSIVE Deduplicated(_)
Deduplicated(reqs) ==
    IF reqs = <<>> THEN <<>>
    ELSE LET rest == Deduplicated(SubSeq(reqs, 1, Len(reqs) - 1))
             last == reqs[Len(reqs)]
         IN  IF \E i \in 1..Len(rest) : rest[i].env_var = last.env_var
             THEN rest ELSE Append(rest, last)

\* env_requirements.get(tool_name, []); a tool id is kept whole.
SingleRequirements(id) ==
    LET k == IndexOf(env_requirements, id)
    IN  IF k = 0 THEN <<>> ELSE env_requirements[k].reqs

\* all_requirements.extend(tool_reqs) for every tool of the table.
AllRequirements ==
    Concat([i \in 1..Len(env_requirements) |-> env_requirements[i].reqs])

get_tool_env_requirements_deduplicated(tool_name) ==
    IF tool_name = None
    THEN Deduplicated(AllRequirements)
    ELSE IF TypeOf(tool_name) = "list"
    THEN Deduplicated(CombinedRequirements(tool_name.items))
    ELSE SingleRequirements(tool_name.chars)

get_tool_env_requirements(tool_name) ==
    IF tool_name = None
    THEN AllRequirements
    ELSE IF TypeOf(tool_name) = "list"
    THEN CombinedRequirements(tool_name.items)
    ELSE SingleRequirements(tool_name.chars)


(***************************************************************************)
(* Calls of get_tool_env_requirements                                      *)
(***************************************************************************)

MaxEnvTools == 2

\* Tool ids to ask about: tools with one, two and no declarations, tools
\* that declare the same variable, and an id that is not in the table.
EnvToolPool ==
    {"SerperDevTool", "GoogleSearchTool", "BrowserTool",
     "FirecrawlSearchTool", "FirecrawlCrawlWebsiteTool",
     "YoutubeChannelSearchTool", "YoutubeVideoSearchTool", "NoSuchTool"}

InitToolEnv ==
    /\ \/ tIn = [op |-> "get_tool_env_requirements", tool_name |-> None]
       \/ \E id \in EnvToolPool :
             tIn = [op |-> "get_tool_env_requirements",
                    tool_name |-> StrValue(id)]
       \/ \E n \in 0..MaxEnvTools : \E items \in [1..n -> EnvToolPool] :
             tIn = [op |-> "get_tool_env_requirements",
                    tool_name |-> ListValue(items)]
    /\ tOut = <<>>
    /\ tPc = "input"
    /\ IdleValidate
    /\ IdleMerge
    /\ IdleRender
    /\ IdleExtract
    /\ IdleLlm
    /\ IdleApp

EnvRequirements ==
    /\ tPc = "input"
    /\ tIn.op = "get_tool_env_requirements"
    /\ tOut' = get_tool_env_requirements(tIn.tool_name)
    /\ tPc' = "returned"
    /\ UNCHANGED <<tIn, validateVars, mergeVars, renderVars, extractVars,
                   llmVars, appVars>>

NextToolEnv == EnvRequirements

SpecToolEnv == InitToolEnv /\ [][NextToolEnv]_vars

(***************************************************************************)
(* Calls of validate_tool_parameters                                       *)
(***************************************************************************)

MaxParams == 2

\* Tools to validate for: one and two required parameters, int, bool and
\* float parameters, and an id that is not in the catalog.
ParamToolPool ==
    {"SerperDevTool", "GoogleSearchTool", "ScrapeWebsiteTool", "NoSuchTool"}

\* Parameter names to supply, "extra" being declared by none of the tools.
ParamNames ==
    {"api_key", "cse_id", "url", "num_results", "include_answer", "wait_for",
     "extra"}

ParamValues ==
    {StrValue(<<>>), StrValue(<<"x">>), StrValue(<<"1", "2">>), IntValue(0), IntValue(7),
     BoolValue(FALSE), BoolValue(TRUE), FloatValue(15), None}

\* The keys of a dict are distinct.
DistinctNames(parameters) ==
    \A i, j \in 1..Len(parameters) :
        parameters[i].name = parameters[j].name => i = j

InitToolParams ==
    /\ \E tool \in ParamToolPool : \E n \in 0..MaxParams :
       \E parameters \in [1..n -> [name : ParamNames, value : ParamValues]] :
          /\ DistinctNames(parameters)
          /\ tIn = [op |-> "validate_tool_parameters", tool_name |-> tool,
                    parameters |-> parameters]
    /\ tOut = <<>>
    /\ tPc = "input"
    /\ IdleValidate
    /\ IdleMerge
    /\ IdleRender
    /\ IdleExtract
    /\ IdleLlm
    /\ IdleApp

ValidateParameters ==
    /\ tPc = "input"
    /\ tIn.op = "validate_tool_parameters"
    /\ tOut' = validate_tool_parameters(tIn.tool_name, tIn.parameters)
    /\ tPc' = "returned"
    /\ UNCHANGED <<tIn, validateVars, mergeVars, renderVars, extractVars,
                   llmVars, appVars>>

NextToolParams == ValidateParameters

SpecToolParams == InitToolParams /\ [][NextToolParams]_vars

(***************************************************************************)
(* Claims about the tool utilities                                         *)
(***************************************************************************)

\* What the table declares for one id: nothing for an id it does not hold.
Declared(id) ==
    LET hits == {i \in 1..Len(env_requirements) : env_requirements[i].tool = id}
    IN  IF hits = {} THEN <<>> ELSE env_requirements[Min(hits)].reqs

\* The number of entries the ids before position i declare.
RECURSIVE Offset(_, _)
Offset(ids, i) ==
    IF i = 1 THEN 0 ELSE Offset(ids, i - 1) + Len(Declared(ids[i - 1]))

\* out is the declarations of ids[1], then those of ids[2], and so on.
IsConcatenationOver(out, ids) ==
    /\ Len(out) = Offset(ids, Len(ids) + 1)
    /\ \A i \in 1..Len(ids) : \A j \in 1..Len(Declared(ids[i])) :
          out[Offset(ids, i) + j] = Declared(ids[i])[j]

TableIds == [i \in 1..Len(env_requirements) |-> env_requirements[i].tool]

EnvReturned == tPc = "returned" /\ tIn.op = "get_tool_env_requirements"

\* C17: given a list, get_tool_env_requirements returns the concatenation,
\* in list order, of each listed tool's own declarations, duplicates kept
\* and unknown ids contributing nothing; given no argument, the
\* concatenation over all tools; [SerperDevTool, GoogleSearchTool] yields
\* exactly SERPER_API_KEY, GOOGLE_API_KEY, GOOGLE_CSE_ID in that order.
C17_EnvRequirementsConcatenate ==
    EnvReturned =>
       /\ TypeOf(tIn.tool_name) = "list" =>
             IsConcatenationOver(tOut, tIn.tool_name.items)
       /\ tIn.tool_name = None => IsConcatenationOver(tOut, TableIds)
       /\ tIn.tool_name = ListValue(<<"SerperDevTool", "GoogleSearchTool">>) =>
             [i \in 1..Len(tOut) |-> tOut[i].env_var]
                = <<"SERPER_API_KEY", "GOOGLE_API_KEY", "GOOGLE_CSE_ID">>

\* The two YouTube tools were asked about and the variable both declare
\* came back twice.
C17_Witness ==
    /\ EnvReturned
    /\ tIn.tool_name =
          ListValue(<<"YoutubeChannelSearchTool", "YoutubeVideoSearchTool">>)
    /\ Len(tOut) = 2
    /\ tOut[1] = tOut[2]

ParamsReturned == tPc = "returned" /\ tIn.op = "validate_tool_parameters"

\* The required parameters the catalog declares for the tool.
RequiredOf(tool) ==
    LET hits == {i \in 1..Len(ToolParameters) : ToolParameters[i].tool = tool}
        ps == ToolParameters[Min(hits)].parameters
    IN  {ps[i].name : i \in {j \in 1..Len(ps) : ps[j].required}}

KnownTool(tool) == \E i \in 1..Len(ToolParameters) : ToolParameters[i].tool = tool

\* The parameter is absent from the supplied values or supplied falsy.
AbsentOrEmpty(parameters, name) ==
    \A i \in 1..Len(parameters) :
        parameters[i].name = name => Falsy(parameters[i].value)

\* How many times the error occurs in the list.
Occurrences(errors, e) == Cardinality({i \in 1..Len(errors) : errors[i] = e})

\* C18: validate_tool_parameters returns the single generic error for an
\* unknown tool id; for a known tool, one missing-required-parameter error
\* for every declared required parameter that is absent or falsy-empty;
\* validate_tool_parameters("SerperDevTool", {}) includes the error for
\* api_key; the supplied mapping is left as it was.
C18_RequiredParametersReported ==
    ParamsReturned =>
       /\ ~KnownTool(tIn.tool_name) => tOut.errors = <<InvalidToolName>>
       /\ KnownTool(tIn.tool_name) =>
             \A name \in RequiredOf(tIn.tool_name) :
                 AbsentOrEmpty(tIn.parameters, name) =>
                    Occurrences(tOut.errors, MissingRequired(name)) = 1
       /\ (tIn.tool_name = "SerperDevTool" /\ tIn.parameters = <<>>) =>
             MissingRequired("api_key") \in Range(tOut.errors)
       /\ tOut.parameters = tIn.parameters

\* GoogleSearchTool was validated with api_key supplied as the empty
\* string and cse_id absent, and both were reported.
C18_Witness ==
    /\ ParamsReturned
    /\ tIn.tool_name = "GoogleSearchTool"
    /\ tIn.parameters = <<[name |-> "api_key", value |-> StrValue(<<>>)]>>
    /\ tOut.errors = <<MissingRequired("api_key"), MissingRequired("cse_id")>>


(***************************************************************************)
(* Calls of generate_config_from_prompt on prompts whose task names an     *)
(* agent                                                                   *)
(***************************************************************************)

MaxAssignAgents == 2

\* Names and roles to write in the agent blocks: one text is both a name
\* and a role.
AssignNames == {<<"x">>, <<"y">>}
AssignRoles == {<<"x">>, <<"y">>, <<"R">>}

\* The line of a task that names its agent; <<>>: none.  After "agent: " at
\* the start of a word the task block has already ended, after
\* "assigned_agent: " it has not.
AssignFields ==
    {<<>>, <<"a", "g", "e", "n", "t", ":", " ", "x">>, <<"a", "s", "s", "i", "g", "n", "e", "d", "_", "a", "g", "e", "n", "t", ":", " ", "x">>, <<"a", "s", "s", "i", "g", "n", "e", "d", "_", "a", "g", "e", "n", "t", ":", " ", "X">>,
     <<"a", "s", "s", "i", "g", "n", "e", "d", "_", "a", "g", "e", "n", "t", ":", " ", "y">>, <<"a", "s", "s", "i", "g", "n", "e", "d", "_", "a", "g", "e", "n", "t", ":", " ", "z", "z">>}

AssignAgentLine(agent, sep) ==
    <<"A", "g", "e", "n", "t", ":", " ", "n", "a", "m", "e", ":", " ">> \o agent.name \o sep \o <<"r", "o", "l", "e", ":", " ">> \o agent.role

\* A prompt of the agent lines, then one task line.
AssignPrompt(agents, sep, ref) ==
    JoinLines([i \in 1..Len(agents) |-> AssignAgentLine(agents[i], sep)]
              \o <<TaskLine(1, sep, ref)>>, <<"\n">>)

InitExtractAssign ==
    /\ \E n \in 0..MaxAssignAgents :
       \E agents \in [1..n -> [name : AssignNames, role : AssignRoles]] :
       \E ref \in AssignFields :
          xPrompt = AssignPrompt(agents, <<"\n">>, ref)
    /\ xOut = [agents |-> <<>>, tasks |-> <<>>, warnings |-> <<>>]
    /\ xPc = "input"
    /\ IdleValidate
    /\ IdleMerge
    /\ IdleRender
    /\ IdleLlm
    /\ IdleApp
    /\ IdleTool

SpecExtractAssign == InitExtractAssign /\ [][NextExtract]_vars

\* The agent the claim assigns: the first agent whose name is the text,
\* else the first whose role is the text, else the first agent.
NameFirst(agent_match, agents) ==
    LET agent_name == lower(strip(agent_match.text))
        byName == {k \in 1..Len(agents) : lower(agents[k].name) = agent_name}
        byRole == {k \in 1..Len(agents) : lower(agents[k].role) = agent_name}
    IN  IF agent_match.found /\ byName # {} THEN agents[Min(byName)].name
        ELSE IF agent_match.found /\ byRole # {} THEN agents[Min(byRole)].name
        ELSE agents[1].name

UnassignedWarningsOf(warnings) ==
    SelectSeq(warnings, LAMBDA w : w.kind = "task_unassigned")

\* C20: a task's agent text is resolved with name matches taking priority
\* over role matches across the whole agent list, then the first role
\* match, then the first agent; with no agents the task is dropped with
\* one warning.
C20_NameMatchFirst ==
    xPc = "returned" =>
       LET task_blocks == findall(xPrompt, 1, kwTask)
       IN  Len(task_blocks) = 1 =>
              IF xOut.agents = <<>>
              THEN /\ xOut.tasks = <<>>
                   /\ Len(UnassignedWarningsOf(xOut.warnings)) = 1
              ELSE /\ Len(xOut.tasks) = 1
                   /\ xOut.tasks[1].agent =
                         NameFirst(search(task_blocks[1], kwAgent), xOut.agents)


(***************************************************************************)
(* Calls of generate_config_from_prompt on prompts whose blocks hold the   *)
(* words "agent" and "task"                                                *)
(***************************************************************************)

MaxBlockTasks == 1

\* Agent blocks: plain, in capitals without a colon, and with the words
\* "task:" and "agent" inside the free text of the goal.
BlockAgentParts ==
    {<<"A", "g", "e", "n", "t", ":", " ", "n", "a", "m", "e", ":", " ", "a", "1">>, <<"A", "g", "e", "n", "t", ":", " ", "n", "a", "m", "e", ":", " ", "a", "1", "\n", "r", "o", "l", "e", ":", " ", "R">>,
     <<"A", "G", "E", "N", "T", " ", "n", "a", "m", "e", ":", " ", "a", "1", "\n", "g", "o", "a", "l", ":", " ", "d", "o", " ", "t", "h", "e", " ", "t", "a", "s", "k", ":", " ", "w", "e", "l", "l">>,
     <<"a", "g", "e", "n", "t", ":", " ", "n", "a", "m", "e", ":", " ", "a", "1", "\n", "g", "o", "a", "l", ":", " ", "a", "n", " ", "a", "g", "e", "n", "t", " ", "w", "o", "r", "k", "s">>}

\* Task blocks: without an agent label, with the label last, first, in
\* capitals, and inside a longer word.
BlockTaskParts ==
    {<<"T", "a", "s", "k", ":", " ", "n", "a", "m", "e", ":", " ", "t", "1">>, <<"T", "a", "s", "k", ":", " ", "n", "a", "m", "e", ":", " ", "t", "1", "\n", "a", "g", "e", "n", "t", ":", " ", "a", "1">>, <<"T", "a", "s", "k", ":", " ", "a", "g", "e", "n", "t", ":", " ", "a", "1", "\n", "n", "a", "m", "e", ":", " ", "t", "1">>,
     <<"T", "A", "S", "K", " ", "n", "a", "m", "e", ":", " ", "t", "1", "\n", "A", "g", "e", "n", "t", ":", " ", "a", "1">>, <<"t", "a", "s", "k", ":", " ", "n", "a", "m", "e", ":", " ", "t", "1", "\n", "a", "s", "s", "i", "g", "n", "e", "d", "_", "a", "g", "e", "n", "t", ":", " ", "a", "1">>,
     <<"T", "a", "s", "k", ":", " ", "n", "a", "m", "e", ":", " ", "t", "1", "\n", "d", "e", "s", "c", "r", "i", "p", "t", "i", "o", "n", ":", " ", "a", " ", "t", "a", "s", "k", " ", "f", "o", "r", " ", "t", "h", "e", " ", "a", "g", "e", "n", "t">>}

InitExtractBlocks ==
    /\ \E na \in 0..1 : \E nt \in 0..MaxBlockTasks :
       \E agents \in [1..na -> BlockAgentParts] :
       \E tasks \in [1..nt -> BlockTaskParts] :
       \E blockSep \in BlockSeps :
          xPrompt = JoinLines(agents \o tasks, blockSep)
    /\ xOut = [agents |-> <<>>, tasks |-> <<>>, warnings |-> <<>>]
    /\ xPc = "input"
    /\ IdleValidate
    /\ IdleMerge
    /\ IdleRender
    /\ IdleLlm
    /\ IdleApp
    /\ IdleTool

SpecExtractBlocks == InitExtractBlocks /\ [][NextExtract]_vars

\* "agent" or "task" at a word boundary, followed by a colon or whitespace.
MarkerAt(s, p) ==
    Boundary(s, p) /\ (KeywordAt(s, p, kwAgent) \/ KeywordAt(s, p, kwTask))

MarkersOf(s, kw) == {p \in 1..Len(s) : Boundary(s, p) /\ KeywordAt(s, p, kw)}

BlocksOf(prompt) ==
    Range(findall(prompt, 1, kwAgent)) \cup Range(findall(prompt, 1, kwTask))

\* C21: every block ends at the next word-boundary occurrence of "agent"
\* or "task" followed by a colon or whitespace, in any letter case, also
\* when it is a task's agent label or a word of free text: no block holds
\* such an occurrence, so no task block holds its own agent label, and
\* each occurrence starts a further agent or task block.
C21_BlocksEndAtMarkers ==
    xPc = "returned" =>
       /\ \A block \in BlocksOf(xPrompt) :
             \A p \in 1..Len(block) : ~MarkerAt(block, p)
       /\ Cardinality(MarkersOf(xPrompt, kwAgent))
             <= Len(findall(xPrompt, 1, kwAgent))
       /\ Cardinality(MarkersOf(xPrompt, kwTask))
             <= Len(findall(xPrompt, 1, kwTask))
       /\ Len(xOut.agents) = Len(findall(xPrompt, 1, kwAgent))


\* The latest click handed a configuration with the three lists of the
\* graph variant to create_langgraph_code.
GraphConfigReached ==
    /\ Generated
    /\ gIn.framework = "langgraph"
    /\ gSession.config # None
    /\ {"agents", "nodes", "edges"} \subseteq DOMAIN gSession.config

NamesOf(items) == {items[i].name : i \in 1..Len(items)}

\* C23: in every graph configuration that reaches create_langgraph_code,
\* from AgentGenerator.analyze_prompt or from get_default_config, each
\* node's agent is the name of an agent of the configuration and each
\* edge's source and target are names of its nodes, the target possibly
\* being the sentinel "END".
C23_GraphReferencesResolve ==
    GraphConfigReached =>
       LET config == gSession.config
       IN  /\ \A i \in 1..Len(config.nodes) :
                  /\ "agent" \in DOMAIN config.nodes[i]
                  /\ config.nodes[i].agent \in NamesOf(config.agents)
           /\ \A i \in 1..Len(config.edges) :
                  /\ {"source", "target"} \subseteq DOMAIN config.edges[i]
                  /\ config.edges[i].source \in NamesOf(config.nodes)
                  /\ config.edges[i].target \in NamesOf(config.nodes) \cup {"END"}


(***************************************************************************)
(* validate_crew_config applied to its own result                          *)
(***************************************************************************)

MaxRepairAgents == 2
MaxRepairTasks == 1

RepairAgentNames == {Absent, Str(<<"a">>), Str(<<"a", " ">>), Str(<<"b">>)}
RepairAgentTools == {NoKey, List(<<"SerperDevTool", "NoSuchTool">>)}
RepairTaskNames == {Absent, Str(<<"t", " ", "1">>)}
RepairTaskRefs == {Absent, NonStr, Str(<<"a">>), Str(<<"a", " ">>), Str(<<"a", "_">>), Str(<<"b">>)}

RepairAgents == [name : RepairAgentNames, tools : RepairAgentTools]
RepairTasks == [name : RepairTaskNames, agent : RepairTaskRefs]

InitRevalidate ==
    /\ \E na \in 0..MaxRepairAgents, nt \in 0..MaxRepairTasks :
         \E agents \in [1..na -> RepairAgents], tasks \in [1..nt -> RepairTasks] :
            vIn = [kind |-> "dict", agents |-> List(agents), tasks |-> List(tasks)]
    /\ vOut = NoOutput
    /\ vPc = "input"
    /\ IdleMerge
    /\ IdleRender
    /\ IdleExtract
    /\ IdleLlm
    /\ IdleApp
    /\ IdleTool

\* The dictionary a returned call leaves behind: the function repairs its
\* argument in place and returns it, with both lists present.
ReturnedConfig(out) ==
    [kind |-> "dict", agents |-> List(out.agents), tasks |-> List(out.tasks)]

\* A second call of validate_crew_config, on the configuration the first
\* call returned.
Revalidate ==
    /\ vPc = "returned"
    /\ vOut' = validate_crew_config(ReturnedConfig(vOut))
    /\ vPc' = IF vOut'.raised THEN "raised_again" ELSE "revalidated"
    /\ UNCHANGED <<vIn, mergeVars, renderVars, extractVars,
                 llmVars, appVars,
                 toolVars>>

NextRevalidate == Validate \/ Revalidate

SpecRevalidate == InitRevalidate /\ [][NextRevalidate]_vars

\* The name the agents loop leaves on an agent whose input name is `name`.
RepairedName(name) ==
    IF name.tag = "absent" THEN Str(unnamed_agent)
    ELSE Str(replace(name.s, " ", "_"))

\* The names of the agent list after the agents loop, from the input.
RepairedNames == {RepairedName(vIn.agents.items[i].name) :
                     i \in 1..Len(vIn.agents.items)}

\* Task i of the input is one the tasks loop reassigns: it has no `agent`
\* key, or its `agent` is not a name of the repaired agent list.
Reassigned(i) ==
    LET agent == vIn.tasks.items[i].agent
    IN agent.tag = "absent" \/ agent \notin RepairedNames

\* C24: whenever validate_crew_config reassigns a task (its `agent` is
\* missing or dangling) and at least one agent exists, the task's `agent`
\* becomes the name of the agent at index 0 of the agent list as it stands
\* after the agent repairs, the placeholder or the space-replaced name,
\* never the pre-repair name and never another agent.
C24_ReassignedToFirstAgent ==
    (vPc = "returned" /\ vIn.agents.items # <<>>) =>
       \A i \in 1..Len(vIn.tasks.items) :
          Reassigned(i) =>
             /\ vOut.tasks[i].agent = vOut.agents[1].name
             /\ vOut.tasks[i].agent = RepairedName(vIn.agents.items[1].name)

C24_Witness ==
    /\ vPc = "returned"
    /\ Len(vIn.agents.items) = 2
    /\ vIn.agents.items[1].name = Str(<<"a", " ">>)
    /\ vIn.agents.items[2].name = Str(<<"b">>)
    /\ Len(vIn.tasks.items) = 1
    /\ vIn.tasks.items[1].agent = Str(<<"a", " ">>)
    /\ vOut.tasks[1].agent = Str(<<"a", "_">>)


\* C26: validate_crew_config is idempotent: for every input on which the
\* first call returns, a second call on the returned configuration returns
\* too, and its agent and task lists equal those of the first call.
C26_ValidateIdempotent ==
    [][(vPc = "returned" /\ vPc' # "returned") =>
          /\ vPc' = "revalidated"
          /\ vOut'.agents = vOut.agents
          /\ vOut'.tasks = vOut.tasks]_vars

\* A second call has returned for an input whose first call repaired an
\* agent name, filtered a tool and reassigned a task.
C26_Witness ==
    /\ vPc = "revalidated"
    /\ Len(vIn.agents.items) = 2
    /\ vIn.agents.items[1].name = Str(<<"a", " ">>)
    /\ vIn.agents.items[1].tools # NoKey
    /\ Len(vIn.tasks.items) = 1
    /\ vIn.tasks.items[1].name = Str(<<"t", " ", "1">>)
    /\ vIn.tasks.items[1].agent = Str(<<"a", " ">>)
    /\ vOut.agents[1].name = Str(<<"a", "_">>)
    /\ vOut.agents[1].tools = List(<<"SerperDevTool">>)
    /\ vOut.tasks[1] = [name |-> Str(<<"t", "_", "1">>), agent |-> Str(<<"a", "_">>)]


(***************************************************************************)
(* create_langgraph_code on graphs of any shape                            *)
(***************************************************************************)

MaxGraphNodes == 2
MaxGraphEdges == 2

GraphNodeNames == {"n1", "n2"}
GraphTargets == GraphNodeNames \cup {"END", "end"}
GraphNodes == {[name |-> "n1", description |-> "D", agent |-> "a1"],
               [name |-> "n2", description |-> "D", agent |-> "a2"],
               [name |-> "n1", description |-> "D", agent |-> "a2"]}
GraphEdges == [source : GraphNodeNames, target : GraphTargets]

\* The iteration orders that create_langgraph_code reads: the order of the
\* tool set; the order of the variable names is read by create_crewai_code.
GraphSeeds == {s \in HashSeeds :
                 s.env = <<"SERPER_API_KEY", "BROWSERLESS_API_KEY", "GMAIL_TOKEN_PATH">>}

\* A graph configuration: two agents, any node list and any edge list.
InitRenderGraph ==
    /\ \E nn \in 0..MaxGraphNodes, ne \in 0..MaxGraphEdges :
         \E nodes \in [1..nn -> GraphNodes], edges \in [1..ne -> GraphEdges] :
            rConfig = [agents |-> RenderConfig(<< <<>>, <<"SerperDevTool">> >>).agents,
                       tasks |-> <<>>, nodes |-> nodes, edges |-> edges]
    /\ rFramework = "langgraph"
    /\ hashSeed \in GraphSeeds
    /\ rOut = <<>>
    /\ IdleValidate
    /\ IdleMerge
    /\ IdleExtract
    /\ IdleLlm
    /\ IdleApp
    /\ IdleTool

SpecRenderGraph == InitRenderGraph /\ [][Render]_vars

\* The positions, in the emitted text, of the pieces that open with `lead`.
PiecesWith(code, lead) == {i \in 1..Len(code) : code[i][1] = lead}

\* The k-th smallest element of a set of positions.
Nth(S, k) == CHOOSE x \in S : Cardinality({y \in S : y < x}) = k - 1

AddNode == "workflow.add_node(\""
AddEdge == "workflow.add_edge(\""
SetEntry == "\n# Set entry point\nworkflow.set_entry_point(\""

\* C25: create_langgraph_code emits exactly one node registration per node
\* and one edge registration per edge, each in input order and all nodes
\* before all edges; an edge whose target is "END" is emitted with the
\* terminal marker END, unquoted, any other target as a quoted name; the
\* entry point is declared, bound to the first node, exactly when the node
\* list is non-empty.
C25_GraphRegistrations ==
    \A r \in 1..Len(rOut) :
       LET code == rOut[r]
           nodes == PiecesWith(code, AddNode)
           edges == PiecesWith(code, AddEdge)
           entry == PiecesWith(code, SetEntry)
       IN  /\ Cardinality(nodes) = Len(rConfig.nodes)
           /\ Cardinality(edges) = Len(rConfig.edges)
           /\ \A k \in 1..Len(rConfig.nodes) :
                 code[Nth(nodes, k)] =
                    <<AddNode, rConfig.nodes[k].name, "\", ",
                      rConfig.nodes[k].agent, "_agent)\n">>
           /\ \A k \in 1..Len(rConfig.edges) :
                 code[Nth(edges, k)] =
                    IF rConfig.edges[k].target = "END"
                    THEN <<AddEdge, rConfig.edges[k].source, "\", END)\n">>
                    ELSE <<AddEdge, rConfig.edges[k].source, "\", \"",
                           rConfig.edges[k].target, "\")\n">>
           /\ \A i \in nodes, j \in edges : i < j
           /\ IF rConfig.nodes = <<>> THEN entry = {}
              ELSE /\ Cardinality(entry) = 1
                   /\ \A i \in entry :
                         /\ code[i] = <<SetEntry, rConfig.nodes[1].name, "\")\n">>
                         /\ \A j \in nodes \cup edges : j < i

\* Code was emitted for two nodes and two edges, the first edge ending at
\* the sentinel and the second at a node.
C25_Witness ==
    /\ rOut # <<>>
    /\ Len(rConfig.nodes) = 2
    /\ rConfig.nodes[1].name = "n2"
    /\ rConfig.nodes[2].name = "n1"
    /\ Len(rConfig.edges) = 2
    /\ rConfig.edges[1].target = "END"
    /\ rConfig.edges[2].target = "n1"
    /\ \E i \in 1..Len(rOut[1]) : rOut[1][i] = <<AddEdge, rConfig.edges[1].source, "\", END)\n">>


(***************************************************************************)
(* Sequences of merge_configurations, each with a new source               *)
(***************************************************************************)

\* The most items in the two lists of the first target together, and in
\* the two lists of each source together.
MaxSeqItems == 2

InitMergeSeq ==
    /\ \E na \in 0..MaxSeqItems : \E nt \in 0..(MaxSeqItems - na) :
          mTarget \in [agents : [1..na -> MergeAgentItems],
                       tasks : [1..nt -> MergeTaskItems]]
    /\ mSource = EmptyConfig
    /\ mBefore = mTarget
    /\ mPc = "new"
    /\ IdleValidate
    /\ IdleRender
    /\ IdleExtract
    /\ IdleLlm
    /\ IdleApp
    /\ IdleTool

\* merge_configurations(st.session_state.config, new_config) with the
\* new_config of one more generation.
MergeNew ==
    /\ mPc \in {"new", "merged", "remerged"}
    /\ \E na \in 0..MaxSeqItems : \E nt \in 0..(MaxSeqItems - na) :
          mSource' \in [agents : [1..na -> MergeAgentItems],
                        tasks : [1..nt -> MergeTaskItems]]
    /\ mBefore' = mTarget
    /\ mTarget' = merge_configurations(mTarget, mSource')
    /\ mPc' = IF mPc = "new" THEN "merged" ELSE "remerged"
    /\ UNCHANGED <<validateVars, renderVars, extractVars, llmVars, appVars,
                   toolVars>>

SpecMergeSeq == InitMergeSeq /\ [][MergeNew]_vars

\* Every task of the configuration names an agent of the configuration.
TasksResolve(config) ==
    \A i \in 1..Len(config.tasks) :
       config.tasks[i].agent \in Range(ExistingNames(config.agents))

\* No two agents, and no two tasks, of the configuration share a name.
NamesUnique(config) ==
    /\ \A i, j \in 1..Len(config.agents) :
          config.agents[i].name = config.agents[j].name => i = j
    /\ \A i, j \in 1..Len(config.tasks) :
          config.tasks[i].name = config.tasks[j].name => i = j

\* C27: merge_configurations preserves reference integrity: when every
\* target task names a target agent and every source task names a source
\* agent, every target task names a target agent after the merge, and so
\* after any sequence of such merges.
C27_MergeKeepsReferences ==
    (mPc # "new" /\ TasksResolve(mBefore) /\ TasksResolve(mSource)) =>
       TasksResolve(mTarget)

\* A second merge of sound configurations replaced a task by a source task
\* naming an agent that only the source brought.
C27_Witness ==
    /\ mPc = "remerged"
    /\ TasksResolve(mBefore)
    /\ TasksResolve(mSource)
    /\ Len(mBefore.tasks) = 1
    /\ Len(mSource.tasks) = 1
    /\ Len(mSource.agents) = 1
    /\ mSource.tasks[1].name = mBefore.tasks[1].name
    /\ mSource.tasks[1].agent # mBefore.tasks[1].agent
    /\ mSource.agents[1].name \notin Range(ExistingNames(mBefore.agents))
    /\ mTarget.tasks = mSource.tasks
    /\ Len(mTarget.agents) = 2

\* C28: merge_configurations preserves the uniqueness of the target's names:
\* a target with unique agent names and unique task names has them after
\* merging any source, a source that repeats a name included.
C28_MergeKeepsNamesUnique ==
    (mPc # "new" /\ NamesUnique(mBefore)) => NamesUnique(mTarget)

\* A source holding the same new agent name twice was merged into a target
\* of unique names, which gained one agent.
C28_Witness ==
    /\ mPc # "new"
    /\ NamesUnique(mBefore)
    /\ Len(mSource.agents) = 2
    /\ mSource.agents[1].name = mSource.agents[2].name
    /\ mSource.agents[1] # mSource.agents[2]
    /\ mSource.agents[1].name \notin Range(ExistingNames(mBefore.agents))
    /\ Len(mBefore.agents) = 1
    /\ Len(mTarget.agents) = 2
    /\ mTarget.agents[2] = mSource.agents[2]


(***************************************************************************)
(* Tools fields with empty tokens                                          *)
(***************************************************************************)

\* The most tokens, empty ones included, in the tools field of a prompt.
MaxEmptyTokens == 3

EmptyTokenPool == {<<>>, <<"f", "i", "l", "e">>, NonexistentToken}

InitExtractEmptyTokens ==
    /\ \E n \in 1..MaxEmptyTokens : \E tokens \in [1..n -> EmptyTokenPool] :
       \E sep \in TokenSeps : xPrompt = ToolPrompt(tokens, sep)
    /\ xOut = [agents |-> <<>>, tasks |-> <<>>, warnings |-> <<>>]
    /\ xPc = "input"
    /\ IdleValidate
    /\ IdleMerge
    /\ IdleRender
    /\ IdleLlm
    /\ IdleApp
    /\ IdleTool

SpecExtractEmptyTokens == InitExtractEmptyTokens /\ [][NextExtract]_vars

\* The tokens that are not empty, in order.
NonEmptyTokens(tokens) ==
    LET NonEmpty(t) == t # <<>> IN SelectSeq(tokens, NonEmpty)

\* C29: in generate_config_from_prompt an empty candidate token of the
\* tools text (from a trailing, leading or doubled comma or semicolon) adds
\* no tool: every tool id in the agent's list was matched by a non-empty
\* token, so the list has one id for each non-empty token that resolves.
C29_EmptyTokenAddsNoTool ==
    \A n \in 1..MaxEmptyTokens : \A tokens \in [1..n -> EmptyTokenPool] :
       \A sep \in TokenSeps :
          (xPc = "returned" /\ xPrompt = ToolPrompt(tokens, sep)) =>
             /\ Len(xOut.agents) = 1
             /\ LET Known(t) == ~Unresolved(t)
                    resolved == SelectSeq(NonEmptyTokens(tokens), Known)
                IN /\ Len(xOut.agents[1].tools) = Len(resolved)
                   /\ \A i \in 1..Len(resolved) :
                         \E k \in 1..Len(AvailableTools) :
                            /\ ResolvesTo(resolved[i], k)
                            /\ xOut.agents[1].tools[i] = AvailableTools[k]


(***************************************************************************)
(* The session after several clicks on Generate                            *)
(***************************************************************************)

\* `if "config" in st.session_state and "code" in st.session_state`
ResultsShown == {"config", "code"} \subseteq DOMAIN gSession

\* C30: after any sequence of clicks on Generate, whenever the session
\* holds both `config` and `code`, the stored code is
\* create_code_block(stored config, stored framework): a failed generation
\* never leaves a newly stored configuration next to the code and the
\* framework of an earlier generation.
C30_SessionCodeMatchesConfig ==
    ResultsShown =>
       /\ "framework" \in DOMAIN gSession
       /\ ~CodeBlockRaises(gSession.config, gSession.framework)
       /\ gSession.code =
             create_code_block(gSession.config, gSession.framework, hashSeed)

=============================================================================
